---- MODULE Spec2Model ----
(***************************************************************************)
(* A model of discorb's Bot (src/unnamed/part_000, lines 1-498): the       *)
(* command tree (register, help, strictDive, weakDive), the parser, the    *)
(* state container with its listeners, and the receive protocol.           *)
(*                                                                         *)
(* Strings are sequences of one-character strings, so that startsWith,     *)
(* trim, split and slice are computed as the code computes them.  A        *)
(* Command object is a record of the heap; its identity is its index.      *)
(***************************************************************************)
EXTENDS Integers, Sequences, FiniteSets, TLC

VARIABLES
    heap,            \* the Command objects created so far, by identity
    commands,        \* Bot.commands: top-level name -> Command identity
    state,           \* Bot.state
    stateListeners,  \* Bot.stateListeners, in insertion order
    last,            \* what the caller of the last API call observed
    created,         \* history: command path -> identity its register call made
    supplied,        \* history: the partial states given to setState, in order
    notified,        \* history: the listener calls of the last setState call
    dispatches,      \* the receive calls made so far, each with its progress
    prefix,          \* Bot.prefix, a string
    probe,           \* the last call of Bot.parse: its message and its result
    plugged,         \* history: the Commands that came in the sub of a Plugin
    registered,      \* history: the listeners passed to onStateUpdate, in order
    channel          \* Bot.client and the clients the bot was given to listen on

vars == <<heap, commands, state, stateListeners, last, created, supplied,
          notified, dispatches, prefix, probe, plugged, registered,
          channel>>

(***************************************************************************)
(* Bounds of the model.                                                    *)
(***************************************************************************)
MaxNodes == 3
MaxListeners == 2
MaxSetStates == 3
MaxMessages == 2
MaxMessageLen == 6

\* The listeners a bot puts on one client.
MaxListens == 2

(***************************************************************************)
(* Strings.                                                                *)
(***************************************************************************)
Whitespace == {" ", "\t"}

EmptyObject == [k \in {} |-> 0]

\* obj[key] of a JavaScript object: 0 stands for undefined.
Undefined == 0

Get(obj, key) == IF key \in DOMAIN obj THEN obj[key] ELSE Undefined

Put(obj, key, value) ==
    [k \in (DOMAIN obj) \cup {key} |-> IF k = key THEN value ELSE obj[k]]

\* String.prototype.startsWith
StartsWith(s, p) == Len(s) >= Len(p) /\ SubSeq(s, 1, Len(p)) = p

\* String.prototype.slice(n)
Slice(s, n) == SubSeq(s, n + 1, Len(s))

RECURSIVE TrimStart(_)
TrimStart(s) ==
    IF s # <<>> /\ Head(s) \in Whitespace THEN TrimStart(Tail(s)) ELSE s

RECURSIVE TrimEnd(_)
TrimEnd(s) ==
    IF s # <<>> /\ s[Len(s)] \in Whitespace
    THEN TrimEnd(SubSeq(s, 1, Len(s) - 1))
    ELSE s

\* String.prototype.trim
Trim(s) == TrimEnd(TrimStart(s))

\* s.replace(/\s+/g, ' '): every run of whitespace becomes one space.
RECURSIVE CollapseWhitespace(_)
CollapseWhitespace(s) ==
    IF s = <<>> THEN <<>>
    ELSE IF Head(s) \in Whitespace
         THEN <<" ">> \o CollapseWhitespace(TrimStart(s))
         ELSE <<Head(s)>> \o CollapseWhitespace(Tail(s))

\* s.split(' '): the pieces between single spaces; '' gives [''].
RECURSIVE SplitFrom(_, _)
SplitFrom(s, piece) ==
    IF s = <<>> THEN <<piece>>
    ELSE IF Head(s) = " "
         THEN <<piece>> \o SplitFrom(Tail(s), <<>>)
         ELSE SplitFrom(Tail(s), Append(piece, Head(s)))

Split(s) == SplitFrom(s, <<>>)

\* pieces.join(' ')
RECURSIVE Join(_)
Join(pieces) ==
    IF pieces = <<>> THEN <<>>
    ELSE IF Len(pieces) = 1 THEN pieces[1]
         ELSE pieces[1] \o <<" ">> \o Join(Tail(pieces))

(***************************************************************************)
(* Bot.parse                                                               *)
(***************************************************************************)
\* A parse that removes the prefix from every piece that starts with it.
parseMutantStripEvery(message) ==
    IF StartsWith(message, prefix)
    THEN LET splits == Split(CollapseWhitespace(Trim(message)))
         IN  IF Len(splits) > 0 /\ splits[1] # prefix
             THEN [i \in DOMAIN splits |->
                      IF StartsWith(splits[i], prefix)
                      THEN Slice(splits[i], Len(prefix))
                      ELSE splits[i]]
             ELSE <<>>
    ELSE <<>>

\* A parse that trims the message before it looks for the prefix.
parseMutantTrimFirst(message) ==
    IF StartsWith(Trim(message), prefix)
    THEN LET splits == Split(CollapseWhitespace(Trim(message)))
         IN  IF Len(splits) > 0 /\ splits[1] # prefix
             THEN [splits EXCEPT ![1] = Slice(splits[1], Len(prefix))]
             ELSE <<>>
    ELSE <<>>

\* A parse that splits at every whitespace character.
parseMutantNoCollapse(message) ==
    IF StartsWith(message, prefix)
    THEN LET splits == Split([i \in DOMAIN Trim(message) |->
                                 IF Trim(message)[i] \in Whitespace THEN " "
                                 ELSE Trim(message)[i]])
         IN  IF Len(splits) > 0 /\ splits[1] # prefix
             THEN [splits EXCEPT ![1] = Slice(splits[1], Len(prefix))]
             ELSE <<>>
    ELSE <<>>

\* A parse that does not trim the message.
parseMutantNoTrim(message) ==
    IF StartsWith(message, prefix)
    THEN LET splits == Split(CollapseWhitespace(message))
         IN  IF Len(splits) > 0 /\ splits[1] # prefix
             THEN [splits EXCEPT ![1] = Slice(splits[1], Len(prefix))]
             ELSE <<>>
    ELSE <<>>

\* A parse that takes a bare prefix for a command with an empty name.
parseMutantKeepBarePrefix(message) ==
    IF StartsWith(message, prefix)
    THEN LET splits == Split(CollapseWhitespace(Trim(message)))
         IN  [splits EXCEPT ![1] = Slice(splits[1], Len(prefix))]
    ELSE <<>>

parse(message) ==
    IF StartsWith(message, prefix)
    THEN LET splits == Split(CollapseWhitespace(Trim(message)))
         IN  IF Len(splits) > 0 /\ splits[1] # prefix
             THEN [splits EXCEPT ![1] = Slice(splits[1], Len(prefix))]
             ELSE <<>>
    ELSE <<>>

\* bot.parse(message), called by the user with the message at hand.
Parse ==
    /\ probe.op = "pending"
    /\ probe' = [op |-> "parse", message |-> probe.message,
                 result |-> parse(probe.message)]
    /\ UNCHANGED <<registered, plugged, channel, prefix, heap, commands, state, stateListeners, last,
                   created, supplied, notified, dispatches>>

(***************************************************************************)
(* The command tree.                                                       *)
(***************************************************************************)
\* Reading a property of undefined throws a TypeError; -1 stands for it
\* where a Command or undefined is expected.
TypeError == -1

\* current != undefined ? current.sub[command] : this.commands[command];
\* current.sub is undefined in a Command that was given without a sub.
Child(current, command) ==
    IF current # Undefined
    THEN IF "sub" \in DOMAIN heap[current]
         THEN Get(heap[current].sub, command)
         ELSE TypeError
    ELSE Get(commands, command)

\* A strictDive that, at a missing segment, returns the Command reached.
RECURSIVE StrictDiveFromMutantAncestor(_, _, _)
StrictDiveFromMutantAncestor(cmds, i, current) ==
    IF i > Len(cmds) THEN current
    ELSE LET next == Child(current, cmds[i])
         IN  IF next = Undefined THEN current
             ELSE StrictDiveFromMutantAncestor(cmds, i + 1, next)

\* Lines 436-443: the loop of strictDive, which breaks at a missing segment.
RECURSIVE StrictDiveFrom(_, _, _)
StrictDiveFrom(cmds, i, current) ==
    IF i > Len(cmds) THEN current
    ELSE LET next == Child(current, cmds[i])
         IN  IF next = Undefined THEN Undefined
             ELSE IF next = TypeError THEN TypeError
             ELSE StrictDiveFrom(cmds, i + 1, next)

\* Bot.strictDive: the Command at exactly this path; Undefined stands for
\* the thrown Error('Unable to follow commands'), TypeError for that error
\* thrown by the lookup.
strictDive(cmds) == StrictDiveFrom(cmds, 1, Undefined)

\* A weakDive without `last`: at a missing segment it returns the lookup
\* that failed.
RECURSIVE WeakDiveFromMutantNoLast(_, _, _, _)
WeakDiveFromMutantNoLast(cmds, i, current, through) ==
    IF i > Len(cmds) THEN [through |-> through, command |-> current]
    ELSE LET next == Child(current, cmds[i])
         IN  IF next = Undefined
             THEN [through |-> through, command |-> next]
             ELSE WeakDiveFromMutantNoLast(cmds, i + 1, next,
                                           Append(through, cmds[i]))

\* Lines 457-469: the loop of weakDive; at a missing segment it returns
\* `last`, the Command reached before the lookup.
RECURSIVE WeakDiveFrom(_, _, _, _)
WeakDiveFrom(cmds, i, current, through) ==
    IF i > Len(cmds) THEN [through |-> through, command |-> current]
    ELSE LET next == Child(current, cmds[i])
         IN  IF next = Undefined
             THEN [through |-> through, command |-> current]
             ELSE IF next = TypeError
             THEN [through |-> through, command |-> TypeError]
             ELSE WeakDiveFrom(cmds, i + 1, next, Append(through, cmds[i]))

\* Bot.weakDive; a command of TypeError stands for that error thrown by the
\* lookup, with the names pushed to `through` before it.
weakDive(cmds) == WeakDiveFrom(cmds, 1, Undefined, <<>>)

(***************************************************************************)
(* Inputs of the model: names, command paths, actions and help values.     *)
(***************************************************************************)
Names == {<<"a">>, <<"b">>}

RECURSIVE NamePaths(_)
NamePaths(n) ==
    IF n = 0 THEN {<<>>}
    ELSE LET shorter == NamePaths(n - 1)
         IN  shorter \cup {Append(p, k) : p \in shorter, k \in Names}

\* The command paths given to register and help: names joined by single
\* spaces, and a path with an empty segment ('a  b').
CommandPaths ==
    {Join(p) : p \in NamePaths(MaxNodes) \ {<<>>}}
        \cup {<<"a", " ", " ", "b">>}

\* Actions are the caller's functions, known by name.
Actions == {"h1", "h2"}

\* Help values: none, a static message, a function.
NoHelp == "undefined"
Helps == {NoHelp, "Help!", "helpFn"}

(***************************************************************************)
(* Bot.register                                                            *)
(***************************************************************************)
\* Lines 298-311: the state after the call and whether it threw.  The new
\* Command object takes the next identity.
registerMutantEager(cmds, action, help, sub) ==
    LET cmd == weakDive(cmds)
        id == Len(heap) + 1
        newCmd == [action |-> action, sub |-> sub, help |-> help]
        key == cmds[Len(cmds)]
    IN  IF cmd.command # Undefined /\ Len(cmd.through) = Len(cmds) - 1
        THEN [threw |-> FALSE, node |-> id, commands |-> commands,
              heap |-> Append([heap EXCEPT ![cmd.command].sub = Put(@, key, id)],
                              newCmd)]
        ELSE [threw |-> ~(cmd.command = Undefined /\ Len(cmds) = 1),
              node |-> id,
              commands |-> Put(commands, key, id),
              heap |-> Append(heap, newCmd)]

registerMutantNoLength(cmds, action, help, sub) ==
    LET cmd == weakDive(cmds)
        id == Len(heap) + 1
        newCmd == [action |-> action, sub |-> sub, help |-> help]
        key == cmds[Len(cmds)]
    IN  IF cmd.command = Undefined
        THEN [threw |-> FALSE, node |-> id,
              commands |-> Put(commands, key, id),
              heap |-> Append(heap, newCmd)]
        ELSE IF cmd.command # Undefined /\ Len(cmd.through) = Len(cmds) - 1
        THEN [threw |-> FALSE, node |-> id, commands |-> commands,
              heap |-> Append([heap EXCEPT ![cmd.command].sub = Put(@, key, id)],
                              newCmd)]
        ELSE [threw |-> TRUE, node |-> Undefined,
              commands |-> commands, heap |-> heap]

registerMutantOverwrite(cmds, action, help, sub) ==
    LET cmd == weakDive(cmds)
        id == Len(heap) + 1
        newCmd == [action |-> action, sub |-> sub, help |-> help]
        key == cmds[Len(cmds)]
        parent == weakDive(SubSeq(cmds, 1, Len(cmds) - 1))
    IN  IF Len(cmds) = 1
        THEN [threw |-> FALSE, node |-> id,
              commands |-> Put(commands, key, id),
              heap |-> Append(heap, newCmd)]
        ELSE IF parent.command # Undefined
                  /\ Len(parent.through) = Len(cmds) - 1
        THEN [threw |-> FALSE, node |-> id, commands |-> commands,
              heap |-> Append([heap EXCEPT ![parent.command].sub = Put(@, key, id)],
                              newCmd)]
        ELSE [threw |-> TRUE, node |-> Undefined,
              commands |-> commands, heap |-> heap]

registerOutcome(cmds, action, help, sub) ==
    LET cmd == weakDive(cmds)
        id == Len(heap) + 1
        newCmd == [action |-> action, sub |-> sub, help |-> help]
        key == cmds[Len(cmds)]
    IN  IF cmd.command = Undefined /\ Len(cmds) = 1
        THEN [threw |-> FALSE, node |-> id,
              commands |-> Put(commands, key, id),
              heap |-> Append(heap, newCmd)]
        ELSE IF /\ cmd.command # Undefined
                /\ cmd.command # TypeError
                /\ Len(cmd.through) = Len(cmds) - 1
        THEN [threw |-> FALSE, node |-> id, commands |-> commands,
              heap |-> Append([heap EXCEPT ![cmd.command].sub = Put(@, key, id)],
                              newCmd)]
        ELSE [threw |-> TRUE, node |-> Undefined,
              commands |-> commands, heap |-> heap]

\* register(commandPath, action) and register(commandPath, action, help)
Register(commandPath, action, help) ==
    \E cmds \in {Split(commandPath)} :
      \E out \in {registerOutcome(cmds, action, help, EmptyObject)} :
        /\ heap' = out.heap
        /\ commands' = out.commands
        /\ created' = IF out.threw THEN created ELSE Put(created, cmds, out.node)
        /\ last' = [op |-> "register", path |-> cmds, action |-> action,
                    help |-> help, threw |-> out.threw]
        /\ UNCHANGED <<registered, plugged, channel, prefix, probe, state, stateListeners, supplied, notified, dispatches>>

\* The sub of a Plugin, as the caller wrote it: none, one Command b, or a
\* Command b that holds a Command a in its own sub (README, Writing plugins).
PluginSubs == {"none", "child", "nested"}

\* The sub of the README's plugin: one Command, b, written without a sub of
\* its own (ohno: { action, help }).
ReadmeSub == "bare"

\* The Command objects of a Plugin's sub; the first of them is the n-th
\* object of the heap.
PluginNodes(shape, n) ==
    IF shape = "none" THEN <<>>
    ELSE IF shape = ReadmeSub
    THEN << [action |-> "h1", help |-> "Help!"] >>
    ELSE IF shape = "child"
    THEN << [action |-> "h1", sub |-> EmptyObject, help |-> NoHelp] >>
    ELSE << [action |-> "h1", sub |-> Put(EmptyObject, <<"a">>, n + 1),
             help |-> NoHelp],
            [action |-> "h2", sub |-> EmptyObject, help |-> "Help!"] >>

\* The paths, below the Plugin's own, of the Commands of its sub.
PluginPaths(shape) ==
    IF shape = "none" THEN <<>>
    ELSE IF shape \in {"child", ReadmeSub} THEN << <<(<<"b">>)>> >>
    ELSE << <<(<<"b">>)>>, <<(<<"b">>), (<<"a">>)>> >>

\* Lines 291-300: register(plugin) takes command, action, help and sub from
\* the Plugin; sub ?? {} is the Plugin's own record, with its Commands.
registerPluginOutcome(cmds, action, help, shape) ==
    LET n == Len(heap) + 2
        sub == IF shape = "none" THEN EmptyObject
               ELSE Put(EmptyObject, <<"b">>, n)
        out == registerOutcome(cmds, action, help, sub)
    IN  IF out.threw THEN out
        ELSE [out EXCEPT !.heap = @ \o PluginNodes(shape, n)]

\* register({ command, action, help, sub })
RegisterPlugin(commandPath, action, help, shape) ==
    \E cmds \in {Split(commandPath)} :
      \E out \in {registerPluginOutcome(cmds, action, help, shape)} :
        /\ heap' = out.heap
        /\ commands' = out.commands
        /\ created' = IF out.threw THEN created ELSE Put(created, cmds, out.node)
        /\ plugged' =
              IF out.threw THEN plugged
              ELSE LET paths == PluginPaths(shape)
                   IN  [q \in (DOMAIN plugged)
                                \cup {cmds \o paths[j] : j \in DOMAIN paths} |->
                          IF \E j \in DOMAIN paths : q = cmds \o paths[j]
                          THEN out.node
                                  + CHOOSE j \in DOMAIN paths :
                                        q = cmds \o paths[j]
                          ELSE plugged[q]]
        /\ last' = [op |-> "register", path |-> cmds, action |-> action,
                    help |-> help, threw |-> out.threw]
        /\ UNCHANGED <<registered, channel, prefix, probe, state, stateListeners,
                       supplied, notified, dispatches>>

(***************************************************************************)
(* Bot.help                                                                *)
(***************************************************************************)
helpMutantWeak(cmds, help) ==
    LET cmd == weakDive(cmds).command
    IN  IF cmd = Undefined
        THEN [threw |-> TRUE, node |-> Undefined, heap |-> heap]
        ELSE [threw |-> FALSE, node |-> cmd,
              heap |-> [heap EXCEPT ![cmd].help = help]]

helpOutcome(cmds, help) ==
    LET cmd == strictDive(cmds)
    IN  IF cmd = Undefined \/ cmd = TypeError
        THEN [threw |-> TRUE, node |-> Undefined, heap |-> heap]
        ELSE [threw |-> FALSE, node |-> cmd,
              heap |-> [heap EXCEPT ![cmd].help = help]]

Help(commandPath, help) ==
    \E cmds \in {Split(commandPath)} :
      \E out \in {helpOutcome(cmds, help)} :
        /\ heap' = out.heap
        /\ last' = [op |-> "help", path |-> cmds, action |-> "none",
                    help |-> help, threw |-> out.threw]
        /\ UNCHANGED <<registered, plugged, channel, prefix, probe, commands, created, state, stateListeners, supplied,
                       notified, dispatches>>

(***************************************************************************)
(* The state container: Bot.setState, Bot.onStateUpdate and                *)
(* Bot.dispatchStateUpdate.                                                *)
(***************************************************************************)
\* Bot.state is undefined until the first setState.
NoState == [undefined |-> TRUE, value |-> EmptyObject]

\* The partial states of the tests, and the empty one.
Partials ==
    { EmptyObject,
      [k \in {"value1"} |-> "a"],
      [k \in {"value2"} |-> "b"],
      [k \in {"value1", "value2"} |-> IF k = "value1" THEN "A" ELSE "B"] }

\* Listeners are the caller's functions, known by name: l1 and l2 return,
\* lThrow throws, lSet calls setState when value2 is not yet 'B'.
Listeners == {"l1", "l2", "lThrow", "lSet"}

lSetPartial == [k \in {"value2"} |-> "B"]

\* A merge that keeps only the supplied keys.
MergeMutantReplace(previous, partial) ==
    [undefined |-> FALSE, value |-> partial]

\* Line 220: { ...previous, ...state }
Merge(previous, partial) ==
    [undefined |-> FALSE,
     value |-> [k \in (DOMAIN previous.value) \cup (DOMAIN partial) |->
                   IF k \in DOMAIN partial THEN partial[k]
                   ELSE previous.value[k]]]

\* A run of setState threads the bot's state, the partial states supplied so
\* far, the listener calls made and whether an error is propagating.
RECURSIVE setState(_, _)
RECURSIVE dispatchStateUpdate(_, _, _, _, _)
RECURSIVE dispatchStateUpdateMutantIfChanged(_, _, _, _, _)
RECURSIVE dispatchStateUpdateMutantCatch(_, _, _, _, _)

\* The body of a listener called with (previousState, newState).
ListenerBody(run, listener, previousState, newState) ==
    IF listener = "lThrow" THEN [run EXCEPT !.threw = TRUE]
    ELSE IF listener = "lSet"
            /\ ~("value2" \in DOMAIN newState.value
                 /\ newState.value["value2"] = "B")
    THEN setState(run, lSetPartial)
    ELSE run

\* A dispatchStateUpdate that notifies only when the state changed.
dispatchStateUpdateMutantIfChanged(run, i, previousState, newState, call) ==
    IF i > Len(stateListeners) \/ previousState = newState THEN run
    ELSE LET at == Len(run.log) + 1
             entry == [call |-> call, listener |-> stateListeners[i],
                       previous |-> previousState, next |-> newState,
                       current |-> run.state, raised |-> FALSE]
             after == ListenerBody([run EXCEPT !.log = Append(@, entry)],
                                   stateListeners[i], previousState, newState)
         IN  IF after.threw
             THEN [after EXCEPT !.log[at].raised = TRUE]
             ELSE dispatchStateUpdateMutantIfChanged(after, i + 1,
                                                     previousState, newState,
                                                     call)

\* A dispatchStateUpdate that catches what a listener throws and goes on
\* with the next listener.
dispatchStateUpdateMutantCatch(run, i, previousState, newState, call) ==
    IF i > Len(stateListeners) THEN run
    ELSE LET at == Len(run.log) + 1
             entry == [call |-> call, listener |-> stateListeners[i],
                       previous |-> previousState, next |-> newState,
                       current |-> run.state, raised |-> FALSE]
             after == ListenerBody([run EXCEPT !.log = Append(@, entry)],
                                   stateListeners[i], previousState, newState)
         IN  dispatchStateUpdateMutantCatch(
                 [after EXCEPT !.log[at].raised = after.threw,
                               !.threw = FALSE],
                 i + 1, previousState, newState, call)

\* Lines 241-245: stateListeners.forEach(action => action.call(this,
\* previousState, newState)), from the i-th listener on; an error thrown by
\* a listener ends the forEach and propagates.
dispatchStateUpdate(run, i, previousState, newState, call) ==
    IF i > Len(stateListeners) THEN run
    ELSE LET at == Len(run.log) + 1
             entry == [call |-> call, listener |-> stateListeners[i],
                       previous |-> previousState, next |-> newState,
                       current |-> run.state, raised |-> FALSE]
             after == ListenerBody([run EXCEPT !.log = Append(@, entry)],
                                   stateListeners[i], previousState, newState)
         IN  IF after.threw
             THEN [after EXCEPT !.log[at].raised = TRUE]
             ELSE dispatchStateUpdate(after, i + 1, previousState, newState,
                                      call)

\* A setState that merges into the state the bot had when the running
\* handler or caller started, not into this.state.
setStateMutantStale(run, partial) ==
    LET previous == state
        next == Merge(previous, partial)
        sup == Append(run.supplied, partial)
    IN  dispatchStateUpdate([run EXCEPT !.state = next, !.supplied = sup],
                            1, previous, next, Len(sup))

\* Lines 218-225: Bot.setState
setState(run, partial) ==
    LET previous == run.state
        next == Merge(previous, partial)
        sup == Append(run.supplied, partial)
    IN  dispatchStateUpdate([run EXCEPT !.state = next, !.supplied = sup],
                            1, previous, next, Len(sup))

\* bot.setState(partial), called by the user.
SetState(partial) ==
    LET run == setState([state |-> state, supplied |-> supplied,
                         log |-> <<>>, threw |-> FALSE], partial)
    IN  /\ Len(supplied) < MaxSetStates
        /\ state' = run.state
        /\ supplied' = run.supplied
        /\ notified' = run.log
        /\ last' = [op |-> "setState", path |-> <<>>, action |-> "none",
                    help |-> NoHelp, threw |-> run.threw]
        /\ UNCHANGED <<registered, plugged, channel, prefix, probe, heap, commands, created, stateListeners, dispatches>>

\* An onStateUpdate that keeps the listeners in an array.
OnStateUpdateMutantPush(listener) ==
    /\ Len(registered) <= MaxListeners
    /\ stateListeners' = Append(stateListeners, listener)
    /\ registered' = Append(registered, listener)
    /\ last' = [op |-> "onStateUpdate", path |-> <<>>, action |-> "none",
                help |-> NoHelp, threw |-> FALSE]
    /\ UNCHANGED <<plugged, channel, prefix, probe, heap, commands, created,
                   state, supplied, notified, dispatches>>

\* Lines 231-234: Bot.onStateUpdate; Set.add keeps a listener already in
\* the set at its place.
OnStateUpdate(listener) ==
    /\ \/ Len(stateListeners) < MaxListeners
       \/ \E i \in DOMAIN stateListeners : stateListeners[i] = listener
    /\ Len(registered) <= MaxListeners
    /\ stateListeners' =
          IF \E i \in DOMAIN stateListeners : stateListeners[i] = listener
          THEN stateListeners
          ELSE Append(stateListeners, listener)
    /\ registered' = Append(registered, listener)
    /\ last' = [op |-> "onStateUpdate", path |-> <<>>, action |-> "none",
                help |-> NoHelp, threw |-> FALSE]
    /\ UNCHANGED <<plugged, channel, prefix, probe, heap, commands, created,
                   state, supplied, notified, dispatches>>

(***************************************************************************)
(* Bot.receive and what it awaits.  A dispatch is one call of receive: its *)
(* message, the handler and help calls and the replies it made, and where  *)
(* it stands: awaiting the action's promise ("action"), the promise of a   *)
(* help function ("help") or a reply ("reply"), or settled ("done") with   *)
(* its result.                                                             *)
(***************************************************************************)
tHelp == <<"h", "e", "l", "p">>
tDashHelp == <<"-", "-", "h", "e", "l", "p">>

\* message.reply(content) with a string, as opposed to an embed.
Text(content) == [content |-> content]

invalidCommandError == "invalidCommandError"
errorMessage == "errorMessage"

\* What the actions of the model do when called: h1 and h2 return, hThrow
\* throws, hAsync returns a promise that settles later or never, hSet calls
\* this.setState({ value1: 'a' }) and returns.  hJoin and hBoth are async
\* functions as the join command of examples/simple.ts: they await a promise
\* that settles later or never, and call this.setState when it has resolved.
\* hHang returns a promise that never settles.
HandlerActions ==
    {"h1", "h2", "hThrow", "hAsync", "hSet", "hJoin", "hBoth", "hHang"}

hSetPartial == [k \in {"value1"} |-> "a"]

\* The actions that await before they return.
AsyncActions == {"hAsync", "hJoin", "hBoth", "hHang"}

\* The dispatch awaits an action whose promise never settles.
Hung(d) == d.pc = "action" /\ d.invoked[1].action = "hHang"

\* The partial state an async action passes to setState after its await.
ResumePartial ==
    [a \in {"hJoin", "hBoth"} |->
        IF a = "hJoin" THEN [k \in {"value2"} |-> "b"]
        ELSE [k \in {"value1", "value2"} |->
                 IF k = "value1" THEN "A" ELSE "B"]]

\* Help functions: helpFn returns a message or a promise, which resolves to
\* a message or rejects; helpThrow throws.
HelpFunctions == {"helpFn", "helpThrow"}

\* The UTF-16 code units of the characters of the model's names.
CodeUnit ==
    [c \in {"-", ";", "a", "b", "c", "e", "h", "l", "p", "x", "y", "z"} |->
        CASE c = "-" -> 45 [] c = ";" -> 59 [] c = "a" -> 97 [] c = "b" -> 98
          [] c = "c" -> 99 [] c = "e" -> 101 [] c = "h" -> 104
          [] c = "l" -> 108 [] c = "p" -> 112 [] c = "x" -> 120
          [] c = "y" -> 121 [] c = "z" -> 122]

\* The order of the default Array.prototype.sort: strings by code units.
RECURSIVE StringLess(_, _)
StringLess(s, t) ==
    IF t = <<>> THEN FALSE
    ELSE IF s = <<>> THEN TRUE
    ELSE IF Head(s) = Head(t) THEN StringLess(Tail(s), Tail(t))
    ELSE CodeUnit[Head(s)] < CodeUnit[Head(t)]

\* Array.prototype.sort, which is stable: x goes after the elements that are
\* not greater.
RECURSIVE SortInsert(_, _)
SortInsert(sorted, x) ==
    IF sorted = <<>> THEN <<x>>
    ELSE IF StringLess(x, Head(sorted)) THEN <<x>> \o sorted
    ELSE <<Head(sorted)>> \o SortInsert(Tail(sorted), x)

RECURSIVE Sort(_)
Sort(list) ==
    IF list = <<>> THEN <<>>
    ELSE SortInsert(Sort(SubSeq(list, 1, Len(list) - 1)), list[Len(list)])

\* Object.keys(this.commands): the names in the order of their insertion,
\* which is the order in which their Commands were created.
RECURSIVE KeysFrom(_)
KeysFrom(id) ==
    IF id > Len(heap) THEN <<>>
    ELSE LET here == {k \in DOMAIN commands : commands[k] = id}
         IN  (IF here = {} THEN <<>> ELSE <<CHOOSE k \in here : TRUE>>)
                \o KeysFrom(id + 1)

Keys == KeysFrom(1)

\* A global help that lists the names in the order of Object.keys.
GlobalHelpMutantUnsorted ==
    [embed |-> [title |-> "Help", commands |-> Keys \o <<tHelp>>]]

\* Lines 396-412: the payload of the global help; the field Commands lists
\* [...Object.keys(this.commands), 'help'].sort(), one name per line.
GlobalHelp ==
    [embed |-> [title |-> "Help", commands |-> Sort(Keys \o <<tHelp>>)]]

\* An onError that logs the error and throws it again.
onErrorMutantRethrow(d) ==
    [d EXCEPT !.errors = @ + 1, !.result = "rejected"]

\* An onError that sends the reply and does not await it.
onErrorMutantNoAwait(d) ==
    [d EXCEPT !.errors = @ + 1,
              !.replies = Append(@, Text(errorMessage)),
              !.pc = "done"]

\* Lines 333-338: Bot.onError logs the error and replies with errorMessage.
onError(d) ==
    [d EXCEPT !.errors = @ + 1,
              !.replies = Append(@, Text(errorMessage)),
              !.pc = "reply"]

\* An onInvalidCommand that answers with the message for unexpected errors.
onInvalidCommandMutantError(d) ==
    [d EXCEPT !.replies = Append(@, Text(errorMessage)), !.pc = "reply"]

\* Lines 344-346: Bot.onInvalidCommand replies with invalidCommandError.
onInvalidCommand(d) ==
    [d EXCEPT !.replies = Append(@, Text(invalidCommandError)), !.pc = "reply"]

\* An onHelp that calls the help function outside of a try block.
onHelpMutantNoCatch(d, request) ==
    IF request.command = Undefined
    THEN [d EXCEPT !.replies = Append(@, GlobalHelp), !.pc = "reply"]
    ELSE LET help == heap[request.command].help
         IN  IF help \in HelpFunctions
             THEN IF help = "helpThrow"
                  THEN [d EXCEPT !.helpCalls = Append(@, help),
                                 !.result = "rejected"]
                  ELSE [d EXCEPT !.helpCalls = Append(@, help), !.pc = "help"]
             ELSE [d EXCEPT !.replies = Append(@, Text(help)), !.pc = "reply"]

\* An onHelp that answers every request of help with the global help.
onHelpMutantAlwaysGlobal(d, request) ==
    [d EXCEPT !.replies = Append(@, GlobalHelp), !.pc = "reply"]

\* Lines 394-428: Bot.onHelp
onHelp(d, request) ==
    IF request.command = Undefined
    THEN [d EXCEPT !.replies = Append(@, GlobalHelp), !.pc = "reply"]
    ELSE LET help == heap[request.command].help
         IN  IF help \in HelpFunctions
             THEN IF help = "helpThrow"
                  THEN onError([d EXCEPT !.helpCalls = Append(@, help)])
                  ELSE [d EXCEPT !.helpCalls = Append(@, help), !.pc = "help"]
             ELSE [d EXCEPT !.replies = Append(@, Text(help)), !.pc = "reply"]

\* through.join('\\s+')
RECURSIVE JoinWith(_, _)
JoinWith(pieces, sep) ==
    IF pieces = <<>> THEN <<>>
    ELSE IF Len(pieces) = 1 THEN pieces[1]
         ELSE pieces[1] \o sep \o JoinWith(Tail(pieces), sep)

\* Line 360: the source text of the RegExp, `^${prefix}${through.join('\\s+')}\\s*`.
\* The prefix and the names go into it as they are.
RestSource(through) ==
    <<"^">> \o prefix \o JoinWith(through, <<"\\", "s", "+">>)
            \o <<"\\", "s", "*">>

\* The number of whitespace characters of text from position j on.
SpaceRun(text, j) ==
    LET from == SubSeq(text, j, Len(text))
    IN  Len(from) - Len(TrimStart(from))

\* RegExp matching of the source from its i-th character against text at
\* position j: the position after the match, or -1 when there is none.  In a
\* source `^` asserts the start of the text, `$` its end, `\s+` and `\s*`
\* take whitespace greedily and give back, and any other character of the
\* model's prefixes and names stands for itself.
RECURSIVE RegExpMatch(_, _, _, _)
RECURSIVE RegExpSpaces(_, _, _, _, _, _)
RegExpSpaces(src, i, text, j, k, least) ==
    IF k < least THEN -1
    ELSE LET end == RegExpMatch(src, i, text, j + k)
         IN  IF end # -1 THEN end
             ELSE RegExpSpaces(src, i, text, j, k - 1, least)

RegExpMatch(src, i, text, j) ==
    IF i > Len(src) THEN j
    ELSE IF src[i] = "^"
    THEN IF j = 1 THEN RegExpMatch(src, i + 1, text, j) ELSE -1
    ELSE IF src[i] = "$"
    THEN IF j = Len(text) + 1 THEN RegExpMatch(src, i + 1, text, j) ELSE -1
    ELSE IF /\ src[i] = "\\"
            /\ i + 2 <= Len(src)
            /\ src[i + 1] = "s"
            /\ src[i + 2] \in {"+", "*"}
    THEN RegExpSpaces(src, i + 3, text, j, SpaceRun(text, j),
                      IF src[i + 2] = "+" THEN 1 ELSE 0)
    ELSE IF j <= Len(text) /\ text[j] = src[i]
         THEN RegExpMatch(src, i + 1, text, j + 1)
         ELSE -1

\* Lines 359-361: message.content.replace(new RegExp(...), '').trim(); the
\* pattern starts with `^`, so it matches at the start of the text or nowhere.
rest(content, through) ==
    LET end == RegExpMatch(RestSource(through), 1, content, 1)
    IN  Trim(IF end = -1 THEN content
             ELSE SubSeq(content, end, Len(content)))

\* A condition that takes --help for a request of help on any command.
helpRequestedMutantNoDescriptor(command, arguments) ==
    /\ Len(arguments) = 1
    /\ \/ command = Undefined /\ arguments[1] = tHelp
       \/ command # Undefined /\ arguments[1] = tDashHelp

\* Lines 370-376: the condition under which receive calls onHelp.
helpRequested(command, arguments) ==
    /\ Len(arguments) = 1
    /\ \/ command = Undefined /\ arguments[1] = tHelp
       \/ /\ command # Undefined
          /\ arguments[1] = tDashHelp
          /\ heap[command].help # NoHelp

\* A receive that looks for the command at exactly the tokens.
receiveMutantStrict(message, run) ==
    LET d == [bot |-> message.bot, content |-> message.content,
              pc |-> "done", result |-> "void", invoked |-> <<>>,
              helpCalls |-> <<>>, replies |-> <<>>, errors |-> 0]
        components == parse(message.content)
        command == strictDive(components)
        request == [components |-> components, commands |-> components,
                    args |-> <<>>, command |-> command]
        called == [d EXCEPT !.invoked =
                      Append(@, [node |-> command,
                                 action |-> heap[command].action,
                                 request |-> request])]
    IN  IF message.bot \/ Len(components) = 0
        THEN [dispatch |-> [d EXCEPT !.result = "false"], run |-> run]
        ELSE IF command = Undefined
        THEN [dispatch |-> [d EXCEPT !.replies = Append(@, Text(invalidCommandError)),
                                     !.pc = "reply"],
              run |-> run]
        ELSE [dispatch |-> called, run |-> run]

\* A receive without the check of message.author.bot.
receiveMutantNoBotFilter(message, run) ==
    LET d == [bot |-> message.bot, content |-> message.content,
              pc |-> "done", result |-> "void", invoked |-> <<>>,
              helpCalls |-> <<>>, replies |-> <<>>, errors |-> 0]
        components == parse(message.content)
        dive == weakDive(components)
        command == dive.command
    IN  IF Len(components) = 0
        THEN [dispatch |-> [d EXCEPT !.result = "false"], run |-> run]
        ELSE IF command = Undefined
        THEN [dispatch |-> [d EXCEPT !.replies = Append(@, Text(invalidCommandError)),
                                     !.pc = "reply"],
              run |-> run]
        ELSE [dispatch |->
                 [d EXCEPT !.invoked =
                     Append(@, [node |-> command,
                                action |-> heap[command].action,
                                request |->
                                   [components |-> components,
                                    commands |-> dive.through,
                                    args |-> SubSeq(components,
                                                    Len(dive.through) + 1,
                                                    Len(components)),
                                    command |-> command]])],
              run |-> run]

\* Lines 353-387: Bot.receive up to its first await on a promise that is
\* still pending; an error thrown by weakDive (line 357) rejects its promise.  `run` threads the state container through a setState
\* made by the action.
receive(message, run) ==
    LET d == [bot |-> message.bot, content |-> message.content,
              pc |-> "done", result |-> "void", invoked |-> <<>>,
              helpCalls |-> <<>>, replies |-> <<>>, errors |-> 0]
        components == parse(message.content)
        dive == weakDive(components)
        through == dive.through
        command == dive.command
        arguments == SubSeq(components, Len(through) + 1, Len(components))
        request == [components |-> components, commands |-> through,
                    args |-> arguments,
                    rest |-> rest(message.content, through),
                    command |-> command]
        called == [d EXCEPT !.invoked =
                      Append(@, [node |-> command,
                                 action |-> heap[command].action,
                                 request |-> request])]
    IN  IF message.bot
        THEN [dispatch |-> [d EXCEPT !.result = "false"], run |-> run]
        ELSE IF Len(components) = 0
        THEN [dispatch |-> [d EXCEPT !.result = "false"], run |-> run]
        ELSE IF command = TypeError
        THEN [dispatch |-> [d EXCEPT !.result = "rejected"], run |-> run]
        ELSE IF helpRequested(command, arguments)
        THEN [dispatch |-> onHelp(d, request), run |-> run]
        ELSE IF command = Undefined
        THEN [dispatch |-> onInvalidCommand(d), run |-> run]
        ELSE LET action == heap[command].action
             IN  IF action = "hThrow"
                 THEN [dispatch |-> onError(called), run |-> run]
                 ELSE IF action \in AsyncActions
                 THEN [dispatch |-> [called EXCEPT !.pc = "action"],
                       run |-> run]
                 ELSE IF action = "hSet"
                 THEN LET after == setState(run, hSetPartial)
                      IN  [dispatch |-> IF after.threw THEN onError(called)
                                        ELSE called,
                           run |-> [after EXCEPT !.threw = FALSE]]
                 ELSE [dispatch |-> called, run |-> run]

\* The transport delivers a message: the listener of line 479 calls receive.
Receive(message) ==
    LET out == receive(message, [state |-> state, supplied |-> supplied,
                                 log |-> <<>>, threw |-> FALSE])
    IN  /\ Len(dispatches) < MaxMessages
        /\ dispatches' = Append(dispatches, out.dispatch)
        /\ state' = out.run.state
        /\ supplied' = out.run.supplied
        /\ notified' = IF out.run.supplied = supplied THEN notified
                       ELSE out.run.log
        /\ last' = [op |-> "receive", path |-> <<>>, action |-> "none",
                    help |-> NoHelp, threw |-> FALSE]
        /\ UNCHANGED <<registered, plugged, channel, prefix, probe, heap, commands, created, stateListeners>>

\* The await of line 417 resumes with the message of the help function,
\* which is replied (line 425).
HelpResolves(i) ==
    /\ dispatches[i].pc = "help"
    /\ dispatches' = [dispatches EXCEPT
                         ![i].replies = Append(@, Text("helpFn message")),
                         ![i].pc = "reply"]
    /\ UNCHANGED <<registered, plugged, channel, prefix, probe, heap, commands, created, state,
                   stateListeners, supplied, notified, last>>

\* The promise of the help function rejects (lines 418-421).
HelpRejects(i) ==
    /\ dispatches[i].pc = "help"
    /\ dispatches' = [dispatches EXCEPT ![i] = onError(@)]
    /\ UNCHANGED <<registered, plugged, channel, prefix, probe, heap, commands, created, state,
                   stateListeners, supplied, notified, last>>

\* A bot that finishes a dispatch only when the earlier ones have finished.
ReplyDoneMutantSerial(i) ==
    /\ dispatches[i].pc = "reply"
    /\ \A j \in 1..(i - 1) : dispatches[j].pc = "done"
    /\ dispatches' = [dispatches EXCEPT ![i].pc = "done"]
    /\ UNCHANGED <<registered, plugged, channel, prefix, probe, heap, commands, created,
                   state, stateListeners, supplied, notified, last>>

\* The promise of a reply resolves: the dispatch settles.
ReplyDone(i) ==
    /\ dispatches[i].pc = "reply"
    /\ dispatches' = [dispatches EXCEPT ![i].pc = "done"]
    /\ UNCHANGED <<registered, plugged, channel, prefix, probe, heap, commands, created, state, stateListeners, supplied,
                   notified, last>>

\* An action that takes the state back when a listener threw.
ActionResolvesMutantRollback(i) ==
    /\ dispatches[i].pc = "action"
    /\ ~Hung(dispatches[i])
    /\ LET action == dispatches[i].invoked[1].action
       IN  IF action \in DOMAIN ResumePartial
           THEN \E run \in {setState([state |-> state, supplied |-> supplied,
                                      log |-> <<>>, threw |-> FALSE],
                                     ResumePartial[action])} :
                  /\ dispatches' = [dispatches EXCEPT
                                       ![i] = IF run.threw THEN onError(@)
                                              ELSE [@ EXCEPT !.pc = "done"]]
                  /\ state' = IF run.threw THEN state ELSE run.state
                  /\ supplied' = run.supplied
                  /\ notified' = run.log
           ELSE /\ dispatches' = [dispatches EXCEPT ![i].pc = "done"]
                /\ UNCHANGED <<state, supplied, notified>>
    /\ UNCHANGED <<registered, plugged, channel, prefix, probe, heap, commands, created,
                   stateListeners, last>>

\* The promise an asynchronous action awaits resolves: the action runs on,
\* calls setState if it is one that does, and its own promise resolves
\* (line 382), or rejects with what a state listener threw (lines 383-385).
ActionResolves(i) ==
    /\ dispatches[i].pc = "action"
    /\ ~Hung(dispatches[i])
    /\ LET action == dispatches[i].invoked[1].action
       IN  IF action \in DOMAIN ResumePartial
           THEN \E run \in {setState([state |-> state, supplied |-> supplied,
                                      log |-> <<>>, threw |-> FALSE],
                                     ResumePartial[action])} :
                  /\ dispatches' = [dispatches EXCEPT
                                       ![i] = IF run.threw THEN onError(@)
                                              ELSE [@ EXCEPT !.pc = "done"]]
                  /\ state' = run.state
                  /\ supplied' = run.supplied
                  /\ notified' = run.log
           ELSE /\ dispatches' = [dispatches EXCEPT ![i].pc = "done"]
                /\ UNCHANGED <<state, supplied, notified>>
    /\ UNCHANGED <<registered, plugged, channel, prefix, probe, heap, commands, created,
                   stateListeners, last>>

\* The promise of an asynchronous action rejects (lines 383-385).
ActionRejects(i) ==
    /\ dispatches[i].pc = "action"
    /\ ~Hung(dispatches[i])
    /\ dispatches' = [dispatches EXCEPT ![i] = onError(@)]
    /\ UNCHANGED <<registered, plugged, channel, prefix, probe, heap, commands, created, state, stateListeners, supplied,
                   notified, last>>

(***************************************************************************)
(* Bot.listen and Bot.close.  A client is an event emitter of the Discord  *)
(* library: it holds the listeners given to client.on and calls each of    *)
(* them when it emits a message event; client.destroy() ends its           *)
(* connection, after which it emits none.  `channel` holds Bot.client, the *)
(* number of listeners the bot has put on each client, the clients         *)
(* destroyed, and as history the clients the bot had a listener on when    *)
(* close was last called and the client of the latest message event.       *)
(***************************************************************************)
Clients == {"c1", "c2"}

NoClient == "undefined"

\* Bot.client is undefined until listen; no client has a listener of the bot.
NoChannel == [client |-> NoClient, listeners |-> EmptyObject,
              destroyed |-> {}, closedOn |-> {}, event |-> NoClient]

\* Lines 477-484: Bot.listen
Listen(client) ==
    /\ Get(channel.listeners, client) < MaxListens
    /\ channel' = [channel EXCEPT
                      !.client = client,
                      !.listeners = Put(@, client, Get(@, client) + 1),
                      !.closedOn = @ \ {client}]
    /\ last' = [op |-> "listen", path |-> <<>>, action |-> "none",
                help |-> NoHelp, threw |-> FALSE]
    /\ UNCHANGED <<registered, plugged, prefix, probe, heap, commands, created,
                   state, stateListeners, supplied, notified, dispatches>>

\* Lines 490-497: Bot.close destroys this.client, if there is one; the
\* listeners stay on the clients and this.client stays set.
Close ==
    /\ channel' = [channel EXCEPT
                      !.destroyed = IF channel.client = NoClient THEN @
                                    ELSE @ \cup {channel.client},
                      !.closedOn = DOMAIN channel.listeners]
    /\ last' = [op |-> "close", path |-> <<>>, action |-> "none",
                help |-> NoHelp, threw |-> FALSE]
    /\ UNCHANGED <<registered, plugged, prefix, probe, heap, commands, created,
                   state, stateListeners, supplied, notified, dispatches>>

\* The listeners of line 479, one after the other: each calls receive.
RECURSIVE deliver(_, _, _)
deliver(k, message, acc) ==
    IF k = 0 THEN acc
    ELSE LET out == receive(message, acc.run)
         IN  deliver(k - 1, message,
                     [dispatches |-> Append(acc.dispatches, out.dispatch),
                      run |-> out.run])

\* A client that is connected emits a message event: every listener the bot
\* put on it runs (lines 478-480).
Emit(client, message) ==
    /\ client \notin channel.destroyed
    /\ Get(channel.listeners, client) > 0
    /\ Len(dispatches) + Get(channel.listeners, client) <= MaxMessages
    /\ \E out \in {deliver(Get(channel.listeners, client), message,
                           [dispatches |-> dispatches,
                            run |-> [state |-> state, supplied |-> supplied,
                                     log |-> <<>>, threw |-> FALSE]])} :
          /\ dispatches' = out.dispatches
          /\ state' = out.run.state
          /\ supplied' = out.run.supplied
          /\ notified' = IF out.run.supplied = supplied THEN notified
                         ELSE out.run.log
    /\ channel' = [channel EXCEPT !.event = client]
    /\ last' = [op |-> "message", path |-> <<>>, action |-> "none",
                help |-> NoHelp, threw |-> FALSE]
    /\ UNCHANGED <<registered, plugged, prefix, probe, heap, commands, created,
                   stateListeners>>

(***************************************************************************)
(* The bot after construction (lines 171, 176, 191, 202-211).              *)
(***************************************************************************)
TestPrefix == <<";", ";">>

NoProbe == [op |-> "none", message |-> <<>>, result |-> <<>>]

\* The fields of a new Bot other than its prefix.
Fresh ==
    /\ plugged = EmptyObject
    /\ registered = <<>>
    /\ channel = NoChannel
    /\ heap = <<>>
    /\ commands = EmptyObject
    /\ state = NoState
    /\ stateListeners = <<>>
    /\ last = [op |-> "new", path |-> <<>>, action |-> "none",
               help |-> NoHelp, threw |-> FALSE]
    /\ created = EmptyObject
    /\ supplied = <<>>
    /\ notified = <<>>
    /\ dispatches = <<>>

\* new Bot({ prefix: p })
Constructed(p) == prefix = p /\ probe = NoProbe /\ Fresh

Init == Constructed(TestPrefix)

\* The token lists given to the dives: paths, also with a foreign token.
DivePaths ==
    LET toks == Names \cup {<<"z">>}
    IN  UNION {[1..n -> toks] : n \in 1..(MaxNodes + 1)}

\* The model holds at most MaxNodes Command objects: a register call that
\* would create one more is left out, a call that throws is not.
CanRegister(commandPath) ==
    \/ Len(heap) < MaxNodes
    \/ registerOutcome(Split(commandPath), "h1", NoHelp, EmptyObject).threw

\* The setup code registering commands: register(path, action) and
\* register(path, action, help).
NextRegister ==
    \/ \E p \in CommandPaths : CanRegister(p) /\ Register(p, "h1", NoHelp)
    \/ \E p \in CommandPaths : CanRegister(p) /\ Register(p, "h2", "Help!")

SpecRegister == Init /\ [][NextRegister]_vars

\* A register call with a Plugin is left out when its Commands would not
\* fit the MaxNodes objects of the model, unless it throws.
CanRegisterPlugin(commandPath, shape) ==
    \/ Len(heap) + 1 + Len(PluginPaths(shape)) <= MaxNodes
    \/ registerPluginOutcome(Split(commandPath), "h2", "Help!", shape).threw

\* Setup code that registers commands one by one and as plugins, and sets
\* help messages.
NextPlugin ==
    \/ \E p \in CommandPaths : CanRegister(p) /\ Register(p, "h1", NoHelp)
    \/ \E p \in CommandPaths, shape \in PluginSubs :
          CanRegisterPlugin(p, shape) /\ RegisterPlugin(p, "h2", "Help!", shape)
    \/ \E p \in CommandPaths : Help(p, "helpFn")

SpecPlugin == Init /\ [][NextPlugin]_vars

\* Setup code that registers commands one by one and as plugins, the
\* README's among them.
NextDive ==
    \/ \E p \in CommandPaths : CanRegister(p) /\ Register(p, "h1", NoHelp)
    \/ \E p \in CommandPaths, shape \in PluginSubs \cup {ReadmeSub} :
          CanRegisterPlugin(p, shape) /\ RegisterPlugin(p, "h2", "Help!", shape)

SpecDive == Init /\ [][NextDive]_vars

\* The setup code registering commands and then their help messages.
NextHelp ==
    \/ \E p \in CommandPaths : CanRegister(p) /\ Register(p, "h1", NoHelp)
    \/ \E p \in CommandPaths, h \in Helps \ {NoHelp} : Help(p, h)

SpecHelp == Init /\ [][NextHelp]_vars

\* Code that registers listeners and sets the state.
NextState ==
    \/ \E l \in Listeners : OnStateUpdate(l)
    \/ \E partial \in Partials : SetState(partial)

SpecState == Init /\ [][NextState]_vars

\* A bot set up as the tests and the README set theirs up, one register
\* call after the other, while messages arrive.
SP == <<" ">>

Script ==
    << [path |-> <<"c">>, action |-> "hSet", help |-> "helpFn"],
       [path |-> <<"a">>, action |-> "h1", help |-> "Help!"],
       [path |-> <<"a", " ", "b">>, action |-> "hAsync", help |-> NoHelp],
       [path |-> <<"b">>, action |-> "hThrow", help |-> "helpThrow"],
       [path |-> tHelp, action |-> "h2", help |-> NoHelp] >>

Setup ==
    /\ Len(heap) < Len(Script)
    /\ LET call == Script[Len(heap) + 1]
       IN  Register(call.path, call.action, call.help)

\* The message contents of the model.
Contents ==
    { prefix \o <<"a">>,
      prefix \o <<"a">> \o SP \o <<"x">>,
      prefix \o <<"a">> \o <<" ", "\t">> \o <<"b">> \o SP,
      prefix \o <<"a">> \o SP \o tDashHelp,
      prefix \o <<"a">> \o SP \o <<"b">> \o SP \o tDashHelp,
      prefix \o <<"b">>,
      prefix \o <<"b">> \o SP \o tDashHelp,
      prefix \o <<"c">>,
      prefix \o <<"c">> \o SP \o tDashHelp,
      prefix \o <<"c">> \o SP \o tDashHelp \o SP \o <<"x">>,
      prefix \o tHelp,
      prefix \o <<"z">> \o SP \o <<"a">>,
      prefix \o tHelp \o SP \o <<"x">>,
      prefix \o <<"a">> \o SP \o <<"x">> \o SP \o SP \o <<"y">>,
      prefix,
      prefix \o SP \o <<"a">>,
      SP \o prefix \o <<"a">>,
      <<"a">> \o SP \o prefix }

Messages == [bot : BOOLEAN, content : Contents]

NextReceive ==
    \/ Setup
    \/ \E message \in Messages : Receive(message)
    \/ \E i \in DOMAIN dispatches : ReplyDone(i)
    \/ \E i \in DOMAIN dispatches : ActionResolves(i)
    \/ \E i \in DOMAIN dispatches : ActionRejects(i)
    \/ \E i \in DOMAIN dispatches : HelpResolves(i)
    \/ \E i \in DOMAIN dispatches : HelpRejects(i)

SpecReceive == Init /\ [][NextReceive]_vars

\* The same bot and messages with the prefix of the tests, with the `!` of
\* the documentation of Bot.prefix, or with `$`.
Prefixes == {TestPrefix, <<"!">>, <<"$">>}

InitPrefix == \E p \in Prefixes : Constructed(p)

SpecPrefix == InitPrefix /\ [][NextReceive]_vars

\* The messages given to parse on a bot with prefix p: the texts of up to
\* MaxMessageLen characters made of the characters of the prefix, a letter,
\* a space and a tab.
ParseMessages(p) ==
    LET chars == {p[i] : i \in DOMAIN p} \cup {"a", " ", "\t"}
    IN  UNION {[1..n -> chars] : n \in 0..MaxMessageLen}

\* A bot with any of the prefixes and a message to parse.
InitParse ==
    \E p \in Prefixes :
        /\ prefix = p
        /\ \E message \in ParseMessages(p) :
              probe = [op |-> "pending", message |-> message, result |-> <<>>]
        /\ Fresh

\* Code that calls parse.
NextParse == Parse

SpecParse == InitParse /\ [][NextParse]_vars

\* A bot whose handlers share the state container, as the join and leave
\* commands of examples/simple.ts: the setup code registers the commands and
\* the listeners, and messages arrive while earlier handlers are suspended.
SharedScript ==
    << [path |-> <<"c">>, action |-> "hSet", help |-> NoHelp],
       [path |-> <<"a">>, action |-> "hJoin", help |-> NoHelp],
       [path |-> <<"b">>, action |-> "hBoth", help |-> NoHelp],
       [path |-> <<"a", " ", "b">>, action |-> "hThrow", help |-> NoHelp] >>

SetupShared ==
    /\ Len(heap) < Len(SharedScript)
    /\ LET call == SharedScript[Len(heap) + 1]
       IN  Register(call.path, call.action, call.help)

SharedListeners == {"l1", "lThrow", "lSet"}

SharedMessages ==
    [bot : {FALSE},
     content : { prefix \o <<"c">>, prefix \o <<"a">>, prefix \o <<"b">>,
                 prefix \o <<"a">> \o SP \o <<"b">>, prefix \o <<"z">> }]

NextShared ==
    \/ SetupShared
    \/ \E l \in SharedListeners : dispatches = <<>> /\ OnStateUpdate(l)
    \/ \E message \in SharedMessages :
          Len(heap) = Len(SharedScript) /\ Receive(message)
    \/ \E i \in DOMAIN dispatches : ReplyDone(i)
    \/ \E i \in DOMAIN dispatches : ActionResolves(i)
    \/ \E i \in DOMAIN dispatches : ActionRejects(i)

SpecShared == Init /\ [][NextShared]_vars

\* A bot with a command whose action never completes, next to commands
\* that complete, raise, or serve help.
HangScript ==
    << [path |-> <<"a">>, action |-> "hHang", help |-> NoHelp],
       [path |-> <<"b">>, action |-> "hAsync", help |-> "helpFn"],
       [path |-> <<"c">>, action |-> "h1", help |-> NoHelp] >>

SetupHang ==
    /\ Len(heap) < Len(HangScript)
    /\ LET call == HangScript[Len(heap) + 1]
       IN  Register(call.path, call.action, call.help)

HangMessages ==
    [bot : BOOLEAN,
     content : { prefix \o <<"a">>, prefix \o <<"b">>, prefix \o <<"c">>,
                 prefix \o <<"b">> \o SP \o tDashHelp, prefix \o <<"z">>,
                 prefix \o tHelp }]

NextHang ==
    \/ SetupHang
    \/ \E message \in HangMessages :
          Len(heap) = Len(HangScript) /\ Receive(message)
    \/ \E i \in DOMAIN dispatches : ReplyDone(i)
    \/ \E i \in DOMAIN dispatches : ActionResolves(i)
    \/ \E i \in DOMAIN dispatches : ActionRejects(i)
    \/ \E i \in DOMAIN dispatches : HelpResolves(i)
    \/ \E i \in DOMAIN dispatches : HelpRejects(i)

\* The event loop runs the continuation of every await whose promise
\* settles: the replies of the channel settle, a help function's promise
\* settles, and so does the promise of every action but hHang.
FairHang ==
    \A i \in 1..MaxMessages :
        /\ WF_vars(i \in DOMAIN dispatches /\ ReplyDone(i))
        /\ WF_vars(i \in DOMAIN dispatches
                       /\ (ActionResolves(i) \/ ActionRejects(i)))
        /\ WF_vars(i \in DOMAIN dispatches
                       /\ (HelpResolves(i) \/ HelpRejects(i)))

SpecHang == Init /\ [][NextHang]_vars /\ FairHang

\* A bot in use: commands are registered one by one and as plugins, help
\* messages are set, the state is set once and listened to by one listener,
\* and messages arrive one after the other, in any order.
AllPaths == {<<"a">>, <<"a", " ", "b">>, <<"b">>}

AllMessages ==
    [bot : {FALSE},
     content : { prefix \o <<"a">>,
                 prefix \o <<"a">> \o SP \o <<"b">> \o SP \o tDashHelp }]

NextAll ==
    \/ \E p \in AllPaths : CanRegister(p) /\ Register(p, "h1", NoHelp)
    \/ \E p \in AllPaths :
          CanRegisterPlugin(p, "child")
              /\ RegisterPlugin(p, "hThrow", "Help!", "child")
    \/ \E p \in AllPaths : Help(p, "Help!")
    \/ supplied = <<>> /\ SetState([k \in {"value2"} |-> "b"])
    \/ registered = <<>> /\ OnStateUpdate("lThrow")
    \/ \E message \in AllMessages :
          /\ \A i \in DOMAIN dispatches : dispatches[i].pc = "done"
          /\ Receive(message)
    \/ \E i \in DOMAIN dispatches : ReplyDone(i)

SpecAll == Init /\ [][NextAll]_vars

\* A bot that listens on clients and is closed, as in the README: the
\* clients deliver messages while they are connected.
ListenScript ==
    << [path |-> <<"a">>, action |-> "h1", help |-> NoHelp] >>

SetupListen ==
    /\ Len(heap) < Len(ListenScript)
    /\ LET call == ListenScript[Len(heap) + 1]
       IN  Register(call.path, call.action, call.help)

ListenMessages ==
    [bot : {FALSE}, content : {prefix \o <<"a">>, prefix \o <<"z">>}]

NextListen ==
    \/ SetupListen
    \/ \E client \in Clients : Listen(client)
    \/ Close
    \/ \E client \in Clients, message \in ListenMessages : Emit(client, message)
    \/ \E i \in DOMAIN dispatches : ReplyDone(i)

SpecListen == Init /\ [][NextListen]_vars

(***************************************************************************)
(* The tree as a set of paths, stated without the walks: the Command at a  *)
(* path is the child, under the path's last name, of the Command at the    *)
(* path without it.                                                        *)
(***************************************************************************)
Parent(path) == SubSeq(path, 1, Len(path) - 1)

RECURSIVE NodeAt(_)
NodeAt(path) ==
    IF Len(path) = 1 THEN Get(commands, path[1])
    ELSE LET up == NodeAt(Parent(path))
         IN  IF up = Undefined THEN Undefined
             ELSE Get(heap[up].sub, path[Len(path)])

Resolves(path) == path # <<>> /\ NodeAt(path) # Undefined

\* The length of the longest prefix of toks that resolves.
LongestPrefix(toks) ==
    CHOOSE n \in 0..Len(toks) :
        /\ \A i \in 1..n : Resolves(SubSeq(toks, 1, i))
        /\ n < Len(toks) => ~Resolves(SubSeq(toks, 1, n + 1))

\* C1: registering a subcommand whose top-level command is missing throws;
\* registering a missing path whose parent resolves (or a missing top-level
\* name) succeeds, and from then on strictDive of every registered path
\* returns the Command its register call created.
C1_RegistrationOrder ==
    [][last'.op = "register" =>
          LET cmds == last'.path
          IN  /\ (Len(cmds) > 1 /\ ~Resolves(<<cmds[1]>>)) => last'.threw
              /\ (/\ ~Resolves(cmds)
                  /\ Len(cmds) = 1 \/ Resolves(Parent(cmds)))
                     => /\ ~last'.threw
                        /\ cmds \in DOMAIN created'
                        /\ created'[cmds] = Len(heap) + 1
              /\ \A q \in DOMAIN created' : strictDive(q)' = created'[q]]_vars

\* a, then a b, then a b a were registered and each resolves to its own node.
C1_Witness ==
    \E p \in DOMAIN created :
        /\ Len(p) = 3
        /\ {SubSeq(p, 1, 1), SubSeq(p, 1, 2)} \subseteq DOMAIN created
        /\ strictDive(p) = created[p]
        /\ Cardinality({created[SubSeq(p, 1, i)] : i \in 1..3}) = 3

\* C2: a register call that throws leaves the command tree as it was, and
\* register throws whenever the parent of the path does not resolve.
C2_FailedRegisterIsAtomic ==
    [][last'.op = "register" =>
          LET cmds == last'.path
          IN  /\ (Len(cmds) > 1 /\ ~Resolves(Parent(cmds))) => last'.threw
              /\ last'.threw => heap' = heap /\ commands' = commands]_vars

\* A call whose walk stopped before the parent threw, on a tree with commands.
C2_Witness ==
    /\ last.op = "register"
    /\ last.threw
    /\ Len(last.path) = 3
    /\ Resolves(SubSeq(last.path, 1, 1))
    /\ ~Resolves(Parent(last.path))

C4_WeakDiveLongestPrefix ==
    \A toks \in DivePaths :
        LET r == weakDive(toks)
            n == LongestPrefix(toks)
        IN  /\ r.through = SubSeq(toks, 1, n)
            /\ r.command = IF n = 0 THEN Undefined
                           ELSE NodeAt(SubSeq(toks, 1, n))
            /\ ~Resolves(<<toks[1]>>)
                  => r.command = Undefined /\ r.through = <<>>

\* On a tree with a -> b: tokens a b z stop at b, tokens z a match nothing.
C4_Witness ==
    \E p \in DOMAIN created :
        /\ Len(p) = 2
        /\ weakDive(Append(p, <<"z">>))
              = [through |-> p, command |-> created[p]]
        /\ weakDive(<<<<"z">>, p[1]>>)
              = [through |-> <<>>, command |-> Undefined]

\* C5: strictDive returns the Command at exactly the path when every
\* segment resolves in turn and throws otherwise (a missing first, middle
\* or trailing segment); it never returns an ancestor of the path.
C5_StrictDiveAllOrNothing ==
    \A path \in DivePaths :
        /\ strictDive(path) = NodeAt(path)
        /\ (\E i \in 1..Len(path) : ~Resolves(SubSeq(path, 1, i)))
              => strictDive(path) = Undefined
        /\ \A i \in 1..(Len(path) - 1) :
              Resolves(SubSeq(path, 1, i))
                  => strictDive(path) # NodeAt(SubSeq(path, 1, i))

\* On a tree with a -> b: a b resolves to its node; z, a z b and a b z throw.
C5_Witness ==
    \E p \in DOMAIN created :
        /\ Len(p) = 2
        /\ strictDive(p) = created[p]
        /\ strictDive(<<<<"z">>>>) = Undefined
        /\ strictDive(<<p[1], <<"z">>, p[2]>>) = Undefined
        /\ strictDive(Append(p, <<"z">>)) = Undefined

\* C6: help(path, h) throws and changes nothing when a segment of the path
\* is missing; otherwise it sets the help of exactly the Command at the
\* path, leaving its action and subcommands and every other Command as
\* they were.
C6_HelpFrame ==
    [][\A cmds \in {last'.path} :
          last'.op = "help" =>
             IF ~Resolves(cmds)
             THEN last'.threw /\ heap' = heap /\ commands' = commands
             ELSE /\ ~last'.threw
                  /\ commands' = commands
                  /\ Len(heap') = Len(heap)
                  /\ heap'[NodeAt(cmds)].help = last'.help
                  /\ heap'[NodeAt(cmds)].action = heap[NodeAt(cmds)].action
                  /\ heap'[NodeAt(cmds)].sub = heap[NodeAt(cmds)].sub
                  /\ \A n \in DOMAIN heap :
                        n # NodeAt(cmds) => heap'[n] = heap[n]]_vars

\* help('a b', h) has set the help of a b while a keeps another help value.
C6_Witness ==
    /\ last.op = "help"
    /\ ~last.threw
    /\ Len(last.path) = 2
    /\ heap[NodeAt(last.path)].help = last.help
    /\ heap[NodeAt(Parent(last.path))].help # last.help

(***************************************************************************)
(* The state as the history of setState calls determines it, stated        *)
(* without the merge: after the first n calls every key supplied by one    *)
(* of them holds the value of the latest call that supplied it.            *)
(***************************************************************************)
SuppliedKeys(n) == UNION {DOMAIN supplied[i] : i \in 1..n}

LastSupplier(k, n) ==
    CHOOSE i \in 1..n :
        /\ k \in DOMAIN supplied[i]
        /\ \A j \in (i + 1)..n : k \notin DOMAIN supplied[j]

StateAfter(n) ==
    IF n = 0 THEN NoState
    ELSE [undefined |-> FALSE,
          value |-> [k \in SuppliedKeys(n) |-> supplied[LastSupplier(k, n)][k]]]

\* The listener calls that the c-th setState call made.
CallsOf(log, c) == SelectSeq(log, LAMBDA e : e.call = c)

\* C7: after any sequence of setState calls from the undefined state, the
\* state holds, for every key supplied by some call, the value of the most
\* recent call that supplied it, and no other key.
C7_ShallowMergeLastWriteWins ==
    state = StateAfter(Len(supplied))

\* value1 was supplied twice and value2 once: each holds its latest value.
C7_Witness ==
    /\ Len(supplied) = 3
    /\ supplied[1] = [k \in {"value1"} |-> "a"]
    /\ supplied[2] = [k \in {"value2"} |-> "b"]
    /\ DOMAIN supplied[3] = {"value1", "value2"}
    /\ state.value = supplied[3]

\* C8 as stated: every setState call invokes all registered listeners, in
\* registration order, exactly once each, with the state before the call
\* and the merged state after it.
C8_Original ==
    [][last'.op = "setState" =>
          \A c \in (Len(supplied) + 1)..Len(supplied') :
              LET es == CallsOf(notified', c)
              IN  /\ [i \in 1..Len(es) |-> es[i].listener] = stateListeners
                  /\ \A i \in 1..Len(es) :
                        /\ es[i].previous = StateAfter(c - 1)'
                        /\ es[i].next = StateAfter(c)']_vars

\* C8 amended: every setState call invokes the registered listeners in
\* registration order, each at most once, with the state before the call
\* (undefined on the first call) and the merged state after it, also when
\* the partial changes no field; it invokes all of them unless one of them
\* raises, and then none after the one that raised.
C8_ListenersNotifiedInOrder ==
    [][last'.op = "setState" =>
          \A c \in (Len(supplied) + 1)..Len(supplied') :
              LET es == CallsOf(notified', c)
              IN  /\ Len(es) <= Len(stateListeners)
                  /\ [i \in 1..Len(es) |-> es[i].listener]
                        = SubSeq(stateListeners, 1, Len(es))
                  /\ \A i \in 1..Len(es) :
                        /\ es[i].previous = StateAfter(c - 1)'
                        /\ es[i].next = StateAfter(c)'
                        /\ es[i].raised => i = Len(es)
                  /\ \/ Len(es) = Len(stateListeners)
                     \/ Len(es) > 0 /\ es[Len(es)].raised
                  /\ last'.threw
                        <=> \E i \in 1..Len(notified') : notified'[i].raised]_vars

\* A setState call that changed no field has notified two listeners.
C8_Witness ==
    /\ last.op = "setState"
    /\ ~last.threw
    /\ Len(stateListeners) = 2
    /\ Len(notified) = 2
    /\ notified[1].listener = stateListeners[1]
    /\ notified[2].listener = stateListeners[2]
    /\ ~notified[1].previous.undefined
    /\ notified[1].previous = notified[1].next

\* C9: receive returns false exactly when the sender is a bot or parse
\* yields no tokens; such a dispatch is settled at once, replies nothing,
\* calls no action and no help function, and leaves the state, the
\* listeners and the command tree as they were.
C9_ReceiveReturnsFalse ==
    [][/\ \A i \in DOMAIN dispatches' :
             LET d == dispatches'[i]
             IN  /\ d.result = "false" <=> (d.bot \/ parse(d.content) = <<>>)
                 /\ d.result = "false"
                       => /\ d.pc = "done"
                          /\ d.replies = <<>>
                          /\ d.invoked = <<>>
                          /\ d.helpCalls = <<>>
                          /\ d.errors = 0
       /\ (/\ Len(dispatches') = Len(dispatches) + 1
           /\ dispatches'[Len(dispatches')].result = "false")
             => UNCHANGED <<heap, commands, state, stateListeners,
                            supplied>>]_vars

\* A bot's message naming a registered command and a bare prefix were both
\* answered with false.
C9_Witness ==
    /\ Len(dispatches) = 2
    /\ dispatches[1].bot
    /\ weakDive(parse(dispatches[1].content)).command # Undefined
    /\ dispatches[1].result = "false"
    /\ ~dispatches[2].bot
    /\ dispatches[2].content = prefix
    /\ dispatches[2].result = "false"

\* Command help is served for one remaining token --help on a command with help.
QualifiesForHelp(node, args) ==
    Len(args) = 1 /\ args[1] = tDashHelp /\ heap[node].help # NoHelp

\* C10: for a message not from a bot whose tokens resolve to a command and
\* that does not qualify for command help, receive calls the action of the
\* deepest matched Command once and no other action, with a request whose
\* commands are the consumed path and whose args are the tokens after it;
\* the dispatch never replies with invalidCommandError.
C10_HandlerInvokedOnce ==
    [][/\ Len(dispatches') = Len(dispatches) + 1 =>
             LET d == dispatches'[Len(dispatches')]
                 toks == parse(d.content)
                 n == LongestPrefix(toks)
                 node == NodeAt(SubSeq(toks, 1, n))
                 args == SubSeq(toks, n + 1, Len(toks))
             IN  (/\ ~d.bot
                  /\ toks # <<>>
                  /\ n > 0
                  /\ ~QualifiesForHelp(node, args))
                    => /\ Len(d.invoked) = 1
                       /\ d.invoked[1].node = node
                       /\ d.invoked[1].action = heap[node].action
                       /\ d.invoked[1].request.components = toks
                       /\ d.invoked[1].request.commands = SubSeq(toks, 1, n)
                       /\ d.invoked[1].request.args = args
                       /\ d.invoked[1].request.command = node
                       /\ d.invoked[1].request.commands
                             \o d.invoked[1].request.args = toks
                       /\ \A k \in DOMAIN d.replies :
                             d.replies[k] # Text(invalidCommandError)
       /\ \A i \in DOMAIN dispatches :
             /\ dispatches'[i].invoked = dispatches[i].invoked
             /\ dispatches[i].invoked # <<>>
                   => \A k \in DOMAIN dispatches'[i].replies :
                         dispatches'[i].replies[k] # Text(invalidCommandError)]_vars

\* ';;a b --help' reached the action of a b, which has no help, with the
\* unmatched token as its only argument.
C10_Witness ==
    \E i \in DOMAIN dispatches :
        /\ Len(dispatches[i].invoked) = 1
        /\ dispatches[i].invoked[1].node = NodeAt(<<<<"a">>, <<"b">>>>)
        /\ dispatches[i].invoked[1].request.commands = <<<<"a">>, <<"b">>>>
        /\ dispatches[i].invoked[1].request.args = <<tDashHelp>>
        /\ dispatches[i].replies = <<>>

\* The text after its first n whitespace-delimited tokens.
RECURSIVE DropToken(_)
DropToken(text) ==
    IF text = <<>> \/ Head(text) \in Whitespace THEN text
    ELSE DropToken(Tail(text))

RECURSIVE DropTokens(_, _)
DropTokens(text, n) ==
    IF n = 0 THEN text ELSE DropTokens(DropToken(TrimStart(text)), n - 1)

\* The message text without the prefix, the consumed path and the
\* whitespace around them.
TextAfterPath(content, through) ==
    Trim(DropTokens(Slice(content, Len(prefix)), Len(through)))

\* C11: in every request given to an action, rest is the message text
\* without the leading prefix, the consumed command path and the whitespace
\* around them, the remaining text unchanged.
C11_RestIsTextAfterPath ==
    \A i \in DOMAIN dispatches :
        \A k \in DOMAIN dispatches[i].invoked :
            dispatches[i].invoked[k].request.rest =
                TextAfterPath(dispatches[i].content,
                              dispatches[i].invoked[k].request.commands)

\* With the prefix ';;', ';;a \t b ' consumed the path a b across a run of
\* whitespace and left an empty rest, and ';;a x  y' left 'x  y'.
C11_Witness ==
    /\ prefix = TestPrefix
    /\ \E i \in DOMAIN dispatches :
          /\ Len(dispatches[i].invoked) = 1
          /\ dispatches[i].invoked[1].request.commands = <<<<"a">>, <<"b">>>>
          /\ dispatches[i].invoked[1].request.rest = <<>>
    /\ \E i \in DOMAIN dispatches :
          /\ Len(dispatches[i].invoked) = 1
          /\ dispatches[i].invoked[1].request.commands = <<<<"a">>>>
          /\ dispatches[i].invoked[1].request.rest = <<"x", " ", " ", "y">>

\* C12: when the action of a dispatch raises, by throwing when it is called
\* or by the rejection of its promise, receive logs the error once, replies
\* once, with errorMessage, never with invalidCommandError, and its promise
\* does not reject; the dispatch makes no further reply afterwards.
C12_HandlerErrorContained ==
    [][/\ Len(dispatches') = Len(dispatches) + 1 =>
             LET d == dispatches'[Len(dispatches')]
             IN  (d.invoked # <<>> /\ d.invoked[1].action = "hThrow")
                    => /\ d.errors = 1
                       /\ d.replies = <<Text(errorMessage)>>
                       /\ d.result = "void"
       /\ \A i \in DOMAIN dispatches :
             /\ ActionRejects(i)
                   => /\ dispatches'[i].errors = 1
                      /\ dispatches'[i].replies = <<Text(errorMessage)>>
                      /\ dispatches'[i].result = "void"
                      /\ dispatches'[i].invoked = dispatches[i].invoked
             /\ dispatches[i].errors > 0
                   => /\ dispatches'[i].errors = dispatches[i].errors
                      /\ dispatches'[i].replies = dispatches[i].replies
                      /\ dispatches'[i].result = "void"]_vars

\* ';;b' reached an action that throws and ';;a b' one whose promise
\* rejected; both dispatches settled after one errorMessage reply.
C12_Witness ==
    /\ \E i \in DOMAIN dispatches :
          /\ Len(dispatches[i].invoked) = 1
          /\ dispatches[i].invoked[1].action = "hThrow"
          /\ dispatches[i].replies = <<Text(errorMessage)>>
          /\ dispatches[i].pc = "done"
    /\ \E i \in DOMAIN dispatches :
          /\ Len(dispatches[i].invoked) = 1
          /\ dispatches[i].invoked[1].action = "hAsync"
          /\ dispatches[i].errors = 1
          /\ dispatches[i].replies = <<Text(errorMessage)>>
          /\ dispatches[i].pc = "done"

\* C13: for a message not from a bot whose first token names no top-level
\* command and whose tokens are not the single token help, receive replies
\* once, with invalidCommandError, and calls no action and no help function;
\* a dispatch that called nothing makes no further reply.
C13_UnknownCommandReply ==
    [][/\ Len(dispatches') = Len(dispatches) + 1 =>
             LET d == dispatches'[Len(dispatches')]
                 toks == parse(d.content)
             IN  (/\ ~d.bot
                  /\ toks # <<>>
                  /\ ~Resolves(<<toks[1]>>)
                  /\ toks # <<tHelp>>)
                    => /\ d.replies = <<Text(invalidCommandError)>>
                       /\ d.invoked = <<>>
                       /\ d.helpCalls = <<>>
                       /\ d.errors = 0
                       /\ d.result = "void"
       /\ \A i \in DOMAIN dispatches :
             dispatches[i].replies = <<Text(invalidCommandError)>>
                => /\ dispatches'[i].replies = dispatches[i].replies
                   /\ dispatches'[i].invoked = <<>>
                   /\ dispatches'[i].helpCalls = <<>>]_vars

\* ';;z a' and ';;help x' were both answered with invalidCommandError while
\* a is registered and no command named help is.
C13_Witness ==
    /\ Resolves(<<<<"a">>>>)
    /\ ~Resolves(<<tHelp>>)
    /\ Len(dispatches) = 2
    /\ dispatches[1].content = prefix \o <<"z">> \o SP \o <<"a">>
    /\ dispatches[2].content = prefix \o tHelp \o SP \o <<"x">>
    /\ \A i \in 1..2 :
          /\ dispatches[i].replies = <<Text(invalidCommandError)>>
          /\ dispatches[i].invoked = <<>>
          /\ dispatches[i].pc = "done"

\* The list holds each element of the set once, in the order of the code
\* units.
ListsSorted(list, names) ==
    /\ {list[i] : i \in DOMAIN list} = names
    /\ \A i, j \in DOMAIN list : i < j => StringLess(list[i], list[j])

\* C14 as stated: for whatever commands are registered, a message not from
\* a bot whose tokens are the single token help is answered with the global
\* help and calls no action.
C14_Original ==
    [][Len(dispatches') = Len(dispatches) + 1 =>
          LET d == dispatches'[Len(dispatches')]
          IN  (~d.bot /\ parse(d.content) = <<tHelp>>)
                 => /\ Len(d.replies) = 1
                    /\ DOMAIN d.replies[1] = {"embed"}
                    /\ d.invoked = <<>>]_vars

\* C14: when no top-level command is named help, a message not from a bot
\* whose tokens are the single token help is answered once, with the global
\* help, which lists each top-level command name and help once, sorted by
\* code units, and no action and no help function is called.
C14_GlobalHelpListsSorted ==
    [][Len(dispatches') = Len(dispatches) + 1 =>
          LET d == dispatches'[Len(dispatches')]
          IN  (~d.bot /\ parse(d.content) = <<tHelp>> /\ ~Resolves(<<tHelp>>))
                 => /\ Len(d.replies) = 1
                    /\ DOMAIN d.replies[1] = {"embed"}
                    /\ d.replies[1].embed.title = "Help"
                    /\ ListsSorted(d.replies[1].embed.commands,
                                   (DOMAIN commands) \cup {tHelp})
                    /\ d.invoked = <<>>
                    /\ d.helpCalls = <<>>
                    /\ d.errors = 0]_vars

\* ';;help' was answered with the list a, b, c, help after c, a and b were
\* registered in this order.
C14_Witness ==
    \E i \in DOMAIN dispatches :
        /\ dispatches[i].content = prefix \o tHelp
        /\ dispatches[i].invoked = <<>>
        /\ dispatches[i].replies =
              << [embed |-> [title |-> "Help",
                             commands |-> << <<"a">>, <<"b">>, <<"c">>,
                                             tHelp >>]] >>
        /\ dispatches[i].pc = "done"

\* The replies that serve the help of a Command: its static message, or
\* what its help function returned.
HelpPayloads == {Text("Help!"), Text("helpFn message")}

\* C15: for a message not from a bot whose tokens resolve to a command:
\* when the only token left is --help and the Command has a help, the action
\* is not called and either the reply is the static help, or the help
\* function is called once and the reply, when its result arrives, is that
\* result; otherwise the action is called with the tokens left as args, no
\* help function is called and no help is ever replied.
C15_CommandHelpServedExactly ==
    [][/\ Len(dispatches') = Len(dispatches) + 1 =>
             LET d == dispatches'[Len(dispatches')]
                 toks == parse(d.content)
                 n == LongestPrefix(toks)
                 node == NodeAt(SubSeq(toks, 1, n))
                 args == SubSeq(toks, n + 1, Len(toks))
             IN  /\ (~d.bot /\ toks # <<>> /\ n > 0
                        /\ QualifiesForHelp(node, args))
                       => /\ d.invoked = <<>>
                          /\ heap[node].help \notin HelpFunctions
                                => /\ d.helpCalls = <<>>
                                   /\ d.replies = <<Text(heap[node].help)>>
                          /\ heap[node].help \in HelpFunctions
                                => d.helpCalls = <<heap[node].help>>
                          /\ heap[node].help = "helpFn"
                                => d.replies = <<>> /\ d.pc = "help"
                 /\ (~d.bot /\ toks # <<>> /\ n > 0
                        /\ ~QualifiesForHelp(node, args))
                       => /\ Len(d.invoked) = 1
                          /\ d.invoked[1].node = node
                          /\ d.invoked[1].request.args = args
                          /\ d.helpCalls = <<>>
                          /\ d.replies \in {<<>>, <<Text(errorMessage)>>}
                 /\ (d.bot \/ toks = <<>> \/ n = 0)
                       => /\ d.helpCalls = <<>>
                          /\ \A k \in DOMAIN d.replies :
                                d.replies[k] \notin HelpPayloads
       /\ \A i \in DOMAIN dispatches :
             /\ dispatches'[i].helpCalls = dispatches[i].helpCalls
             /\ dispatches'[i].invoked = dispatches[i].invoked
             /\ HelpResolves(i)
                   => dispatches'[i].replies = <<Text("helpFn message")>>
             /\ dispatches'[i].replies # dispatches[i].replies
                   => \/ /\ dispatches[i].helpCalls = <<"helpFn">>
                         /\ dispatches[i].replies = <<>>
                      \/ dispatches'[i].replies
                            = Append(dispatches[i].replies, Text(errorMessage))
      ]_vars

\* ';;c --help' was answered with what the help function of c returned, its
\* action not called, and ';;c --help x' called the action of c with both
\* tokens as args.
C15_Witness ==
    /\ Len(dispatches) = 2
    /\ dispatches[1].content = prefix \o <<"c">> \o SP \o tDashHelp
    /\ dispatches[1].replies = <<Text("helpFn message")>>
    /\ dispatches[1].helpCalls = <<"helpFn">>
    /\ dispatches[1].invoked = <<>>
    /\ dispatches[1].pc = "done"
    /\ dispatches[2].content
          = prefix \o <<"c">> \o SP \o tDashHelp \o SP \o <<"x">>
    /\ Len(dispatches[2].invoked) = 1
    /\ dispatches[2].invoked[1].request.args = <<tDashHelp, <<"x">>>>
    /\ dispatches[2].helpCalls = <<>>
    /\ dispatches[2].replies = <<>>

\* C16: when a help function throws or its promise rejects, the error is
\* logged and the only reply of the dispatch is errorMessage: no help is
\* replied, the action of the Command is not called and the promise of
\* receive does not reject.
C16_HelpErrorContained ==
    [][/\ Len(dispatches') = Len(dispatches) + 1 =>
             LET d == dispatches'[Len(dispatches')]
             IN  d.helpCalls = <<"helpThrow">>
                    => /\ d.errors = 1
                       /\ d.replies = <<Text(errorMessage)>>
                       /\ d.invoked = <<>>
                       /\ d.result = "void"
       /\ \A i \in DOMAIN dispatches :
             /\ HelpRejects(i)
                   => /\ dispatches'[i].errors = 1
                      /\ dispatches'[i].replies = <<Text(errorMessage)>>
                      /\ dispatches'[i].invoked = <<>>
                      /\ dispatches'[i].result = "void"
             /\ (dispatches[i].errors > 0 /\ dispatches[i].helpCalls # <<>>)
                   => /\ dispatches'[i].errors = 1
                      /\ dispatches'[i].replies = <<Text(errorMessage)>>
                      /\ dispatches'[i].invoked = <<>>
                      /\ dispatches'[i].result = "void"]_vars

\* ';;b --help' called a help function that throws and ';;c --help' one
\* whose promise rejected; both dispatches settled after one errorMessage
\* reply, no action called.
C16_Witness ==
    /\ Len(dispatches) = 2
    /\ dispatches[1].helpCalls = <<"helpThrow">>
    /\ dispatches[2].helpCalls = <<"helpFn">>
    /\ \A i \in 1..2 :
          /\ dispatches[i].errors = 1
          /\ dispatches[i].replies = <<Text(errorMessage)>>
          /\ dispatches[i].invoked = <<>>
          /\ dispatches[i].pc = "done"

\* The whitespace-delimited tokens of a text, in order.
RECURSIVE Tokens(_)
Tokens(text) ==
    LET from == TrimStart(text)
        after == DropToken(from)
    IN  IF from = <<>> THEN <<>>
        ELSE <<SubSeq(from, 1, Len(from) - Len(after))>> \o Tokens(after)

\* Whitespace strings put before and after a message.
Paddings == {<<>>, <<" ">>, <<"\t", " ">>}

\* C17: parse returns the empty list for every message whose first
\* characters are not the prefix, also when the prefix comes later in the
\* message or after leading whitespace.
C17_NoPrefixAtStartGivesEmpty ==
    (/\ probe.op = "parse"
     /\ \/ Len(probe.message) < Len(prefix)
        \/ \E i \in DOMAIN prefix : probe.message[i] # prefix[i])
        => probe.result = <<>>

\* parse(' ;;a') returned the empty list.
C17_Witness ==
    /\ probe.op = "parse"
    /\ prefix = TestPrefix
    /\ probe.message = <<" ">> \o prefix \o <<"a">>
    /\ probe.result = <<>>

\* C18 as stated: whitespace put before and after a message does not change
\* what parse returns.
C18_Original ==
    probe.op = "parse"
        => \A w1, w2 \in Paddings :
              parse(w1 \o probe.message \o w2) = probe.result

\* C18: whitespace put after a message does not change what parse returns;
\* with whitespace put before it parse returns the empty list.
C18_TrailingWhitespaceInsignificant ==
    probe.op = "parse"
        => \A w1, w2 \in Paddings :
              parse(w1 \o probe.message \o w2) =
                  IF w1 = <<>> THEN probe.result ELSE <<>>

\* parse(';;a') returned the token a, as parse(';;a\t ') does, while
\* parse(' ;;a') returns the empty list.
C18_Witness ==
    /\ probe.op = "parse"
    /\ prefix = TestPrefix
    /\ probe.message = prefix \o <<"a">>
    /\ probe.result = << <<"a">> >>
    /\ parse(probe.message \o <<"\t", " ">>) = probe.result
    /\ parse(<<" ">> \o probe.message) = <<>>

\* C19: for a message that starts with the prefix followed at once by a
\* character that is not whitespace, parse returns the whitespace-delimited
\* tokens of the message in order, the first one without its first
\* Len(prefix) characters and the others as they are.
C19_TokensInOrder ==
    (/\ probe.op = "parse"
     /\ StartsWith(probe.message, prefix)
     /\ Len(probe.message) > Len(prefix)
     /\ probe.message[Len(prefix) + 1] \notin Whitespace)
        => LET toks == Tokens(probe.message)
           IN  /\ Len(probe.result) = Len(toks)
               /\ probe.result[1] =
                     SubSeq(toks[1], Len(prefix) + 1, Len(toks[1]))
               /\ probe.result[1] # <<>>
               /\ \A i \in 2..Len(toks) : probe.result[i] = toks[i]

\* parse(';;a\t;;') returned the tokens a and ';;'.
C19_Witness ==
    /\ probe.op = "parse"
    /\ prefix = TestPrefix
    /\ probe.message = prefix \o <<"a", "\t">> \o prefix
    /\ probe.result = << <<"a">>, prefix >>

\* C20: for a message whose first whitespace-delimited token is the prefix
\* itself, alone or followed by further text, parse returns the empty list,
\* and receive of such a message returns false without a call or a reply.
C20_BarePrefixGivesEmpty ==
    (/\ probe.op = "parse"
     /\ Tokens(probe.message) # <<>>
     /\ Tokens(probe.message)[1] = prefix)
        => /\ probe.result = <<>>
           /\ LET d == receive([bot |-> FALSE, content |-> probe.message],
                               [state |-> state, supplied |-> supplied,
                                log |-> <<>>, threw |-> FALSE]).dispatch
              IN  /\ d.result = "false"
                  /\ d.invoked = <<>>
                  /\ d.helpCalls = <<>>
                  /\ d.replies = <<>>

\* parse(';; a') returned the empty list.
C20_Witness ==
    /\ probe.op = "parse"
    /\ prefix = TestPrefix
    /\ probe.message = prefix \o <<" ", "a">>
    /\ probe.result = <<>>

\* The dispatches in which a handler raised during the step: the new
\* dispatch of a receive, or one whose action resumed or whose promise
\* rejected.
RaisedInStep ==
    {i \in DOMAIN dispatches' :
        /\ dispatches'[i].invoked # <<>>
        /\ dispatches'[i].errors = 1
        /\ (i \in DOMAIN dispatches => dispatches[i].errors = 0)}

\* The state after merging, in order, the partial states from the n-th on
\* of a list into a state.
RECURSIVE MergeAll(_, _, _)
MergeAll(from, partials, n) ==
    IF n > Len(partials) THEN from
    ELSE MergeAll(Merge(from, partials[n]), partials, n + 1)

\* C21 as stated: a dispatch whose handler raises leaves the state, the
\* listener set and the command tree as they were before it.
C21_Original ==
    [][RaisedInStep # {} =>
          /\ state' = state
          /\ stateListeners' = stateListeners
          /\ heap' = heap
          /\ commands' = commands]_vars

\* C21 amended: a dispatch whose handler raises leaves the listener set and
\* the command tree as they were; the state is what the handler's own
\* setState calls made of it before the error (it is not rolled back) and is
\* untouched when the handler made none; the dispatches in flight are
\* untouched; and every message resolves after the failure to the command,
\* with the action and the help, that it resolved to before it.
C21_ErrorContainedPerDispatch ==
    [][RaisedInStep # {} =>
          /\ stateListeners' = stateListeners
          /\ heap' = heap
          /\ commands' = commands
          /\ state' = MergeAll(state, supplied', Len(supplied) + 1)
          /\ (supplied' = supplied => state' = state)
          /\ \A i \in DOMAIN dispatches :
                i \notin RaisedInStep => dispatches'[i] = dispatches[i]
          /\ prefix' = prefix
          /\ \A m \in SharedMessages :
                \A components \in {parse(m.content)} :
                    /\ weakDive(components)' = weakDive(components)
                    /\ \A command \in {weakDive(components).command} :
                          command # Undefined
                              => heap'[command] = heap[command]]_vars

\* A handler that set value1 and then failed on a throwing listener: the
\* state holds value1, and the dispatch answered with the error message.
C21_Witness ==
    /\ stateListeners # <<>>
    /\ stateListeners[1] = "lThrow"
    /\ \E i \in DOMAIN dispatches :
          /\ dispatches[i].invoked # <<>>
          /\ dispatches[i].invoked[1].action = "hSet"
          /\ dispatches[i].errors = 1
    /\ state = [undefined |-> FALSE, value |-> [k \in {"value1"} |-> "a"]]

\* The first k tokens of a path.
Upto(path, k) == SubSeq(path, 1, k)

\* C22 as stated: a path resolves under the strict walk only if it and each
\* of its ancestors were passed to a successful register call, parent
\* before child.
C22_Original ==
    \A p \in DivePaths :
        strictDive(p) # Undefined =>
            \A k \in 1..Len(p) :
                /\ Upto(p, k) \in DOMAIN created
                /\ created[Upto(p, k)] = strictDive(Upto(p, k))
                /\ k > 1 => strictDive(Upto(p, k - 1)) < strictDive(Upto(p, k))

\* C22 amended: a path resolves under the strict walk only if it and each of
\* its ancestors either were passed to a successful register call, parent
\* before child, or are Commands of the sub record of a Plugin that was
\* passed to a successful register call for one of their ancestors.
C22_ResolvableOnlyIfRegistered ==
    \A p \in DivePaths :
        strictDive(p) # Undefined =>
            \A k \in 1..Len(p) :
                LET q == Upto(p, k)
                IN  /\ \/ q \in DOMAIN created /\ created[q] = strictDive(q)
                       \/ /\ q \in DOMAIN plugged
                          /\ plugged[q] = strictDive(q)
                          /\ \E j \in 1..(k - 1) : Upto(p, j) \in DOMAIN created
                    /\ k > 1 => strictDive(Upto(p, k - 1)) < strictDive(q)

\* `a` was registered as a Plugin with the Command b in its sub, and `a b a`
\* was registered below it: `a b` resolves though no register call named it.
C22_Witness ==
    /\ <<(<<"a">>), (<<"b">>)>> \in DOMAIN plugged
    /\ <<(<<"a">>), (<<"b">>)>> \notin DOMAIN created
    /\ <<(<<"a">>), (<<"b">>), (<<"a">>)>> \in DOMAIN created
    /\ strictDive(<<(<<"a">>), (<<"b">>), (<<"a">>)>>) # Undefined

\* C23: every dispatch other than one whose handler never completes reaches
\* its end (ignored, help or error or unknown-command reply delivered, or
\* handler completed), whether it was delivered before or after the hung one.
C23_HungHandlerStallsOnlyItself ==
    \A i \in 1..MaxMessages :
        (IF i \in DOMAIN dispatches THEN ~Hung(dispatches[i]) ELSE FALSE)
            ~> (IF i \in DOMAIN dispatches THEN dispatches[i].pc = "done"
                ELSE FALSE)

\* The first dispatch hangs in its handler; a message delivered after it
\* has had its handler invoked, awaited and completed.
C23_Witness ==
    /\ Len(dispatches) >= 2
    /\ Hung(dispatches[1])
    /\ dispatches[2].pc = "done"
    /\ dispatches[2].invoked # <<>>
    /\ dispatches[2].invoked[1].action = "hAsync"

\* The setState calls, in the order they ran, that supplied the key.
Suppliers(k) == {i \in DOMAIN supplied : k \in DOMAIN supplied[i]}

\* C24: whatever the order in which the suspended handlers resume and call
\* setState, each key holds the value of the call that ran last among those
\* supplying it; a key that one call only supplied holds that call's value,
\* and no key is lost.
C24_ConcurrentLastWriteWins ==
    /\ DOMAIN state.value = {k \in {"value1", "value2"} : Suppliers(k) # {}}
    /\ \A k \in DOMAIN state.value :
          \A i \in Suppliers(k) :
              (\A j \in Suppliers(k) : j <= i)
                  => state.value[k] = supplied[i][k]

\* hJoin was received first and hBoth second; hBoth resumed first and set
\* both keys, hJoin resumed last and set value2: value2 is hJoin's, value1
\* is still hBoth's.
C24_Witness ==
    /\ Len(dispatches) = 2
    /\ dispatches[1].invoked # <<>> /\ dispatches[1].invoked[1].action = "hJoin"
    /\ dispatches[2].invoked # <<>> /\ dispatches[2].invoked[1].action = "hBoth"
    /\ dispatches[1].pc = "done" /\ dispatches[2].pc = "done"
    /\ stateListeners = <<>>
    /\ supplied = <<ResumePartial["hBoth"], ResumePartial["hJoin"]>>
    /\ state.value["value1"] = "A"
    /\ state.value["value2"] = "b"

\* C25 as stated: the listener calls of one setState call are never
\* interleaved with those of another: once another call has notified, the
\* first notifies no more.
C25_Original ==
    [][supplied' # supplied =>
          \A i, j, k \in DOMAIN notified' :
              (i < j /\ j < k /\ notified'[i].call = notified'[k].call)
                  => notified'[j].call = notified'[i].call]_vars

\* C25 amended: a handler or other caller runs one setState call at a time,
\* from merge to last listener, and no other handler's call comes between;
\* a call made by a listener during notification runs nested in the
\* notifying call: it starts from the state that call merged, and its merge
\* and all its notifications come before the notifying call invokes its
\* next listener.
C25_MergeNotifyNestsOnly ==
    [][supplied' # supplied =>
          LET log == notified'
              first == Len(supplied) + 1
          IN  /\ \A i \in DOMAIN log :
                    log[i].call \in first..Len(supplied')
              /\ log # <<>> =>
                    log[1].call = first /\ log[1].previous = state
              /\ \A i, j, k \in DOMAIN log :
                    (i < j /\ j < k /\ log[i].call = log[k].call)
                        => /\ log[j].call >= log[i].call
                           /\ \A n \in DOMAIN log :
                                 log[n].call = log[j].call
                                     /\ log[j].call # log[i].call
                                     => i < n /\ n < k
              /\ \A i \in DOMAIN log \ {1} :
                    (\A j \in 1..(i - 1) : log[j].call # log[i].call)
                        => /\ log[i - 1].listener = "lSet"
                           /\ log[i - 1].call < log[i].call
                           /\ log[i].previous = log[i - 1].current]_vars

\* A handler's call has notified lSet, which called setState, whose
\* notifications of lSet and l1 came before the handler's call notified l1.
C25_Witness ==
    /\ stateListeners = <<"lSet", "l1">>
    /\ dispatches # <<>>
    /\ Len(notified) = 4
    /\ notified[1].call = notified[4].call
    /\ notified[2].call = notified[3].call
    /\ notified[2].call = notified[1].call + 1
    /\ notified[4].listener = "l1"

\* C26: the promise of receive settles only after the action's own promise
\* has resolved and, when the action raised or its promise rejected, only
\* after the reply of the error message has completed: a dispatch that
\* calls an async action starts by awaiting it; an awaited action either
\* resolves, which ends the dispatch, or rejects, which sends the error
\* reply and awaits it; a dispatch that raised ends from awaiting the reply
\* only.  A message that arrives meanwhile starts its own dispatch and
\* leaves the others where they are.
C26_FinishedAfterHandlerAndErrorReply ==
    [][/\ \A i \in DOMAIN dispatches' :
             LET after == dispatches'[i]
             IN  IF i \in DOMAIN dispatches
                 THEN LET before == dispatches[i]
                      IN  /\ before.pc = "done" => after = before
                          /\ (before.pc = "action" /\ after # before) =>
                                \/ /\ after.pc = "done"
                                   /\ after.errors = before.errors
                                   /\ after.replies = before.replies
                                \/ /\ after.pc = "reply"
                                   /\ after.errors = before.errors + 1
                                   /\ after.replies
                                         = Append(before.replies,
                                                  Text(errorMessage))
                          /\ (before.pc = "reply" /\ after # before) =>
                                after = [before EXCEPT !.pc = "done"]
                 ELSE /\ (after.invoked # <<>>
                            /\ after.invoked[1].action \in AsyncActions)
                             => after.pc = "action" /\ after.errors = 0
                      /\ after.errors > 0 => after.pc = "reply"
       /\ Len(dispatches') > Len(dispatches) =>
             \A i \in DOMAIN dispatches : dispatches'[i] = dispatches[i]]_vars

\* Two dispatches in flight at once: the first awaits its action, the
\* second, delivered meanwhile, awaits the reply of the error message.
C26_Witness ==
    /\ Len(dispatches) = 2
    /\ dispatches[1].pc = "action"
    /\ dispatches[2].pc = "reply"
    /\ dispatches[2].errors = 1

\* C27: no step of register, help, setState or receive, whether it
\* succeeds or throws, makes a path that the strict walk resolved stop
\* resolving or resolve to another Command, and no Command loses a child or
\* changes its action.
C27_NodesNeverDeleted ==
    [][/\ \A p \in NamePaths(MaxNodes) \ {<<>>} :
             \A node \in {strictDive(p)} :
                 node # Undefined =>
                     \A q \in {p} : strictDive(q)' = node
       /\ \A node \in DOMAIN heap :
             /\ node \in DOMAIN heap'
             /\ heap'[node].action = heap[node].action
             /\ \A key \in DOMAIN heap[node].sub :
                   Get(heap'[node].sub, key) = heap[node].sub[key]
       /\ \A key \in DOMAIN commands :
             Get(commands', key) = commands[key]]_vars

\* `a` with its child `a b` still resolves after a register call that
\* threw, a help call, a setState that threw and a dispatch that raised.
C27_Witness ==
    /\ strictDive(<<(<<"a">>), (<<"b">>)>>) # Undefined
    /\ last.op = "register" /\ last.threw
    /\ heap[strictDive(<<(<<"a">>)>>)].help = "Help!"
    /\ supplied # <<>>
    /\ stateListeners # <<>>
    /\ \E i \in DOMAIN dispatches : dispatches[i].errors = 1

\* The elements of a sequence, each once, in the order of their first
\* occurrence.
RECURSIVE FirstOccurrences(_)
FirstOccurrences(seq) ==
    IF seq = <<>> THEN <<>>
    ELSE LET front == FirstOccurrences(SubSeq(seq, 1, Len(seq) - 1))
             x == seq[Len(seq)]
         IN  IF \E i \in DOMAIN front : front[i] = x THEN front
             ELSE Append(front, x)

\* C28 as stated: the listener set holds no duplicates, and every setState
\* call invokes each listener passed to onStateUpdate exactly once, at the
\* position of its first registration, however often it was passed.
C28_Original ==
    [][/\ stateListeners' = FirstOccurrences(registered')
       /\ last'.op = "setState" =>
             \A c \in (Len(supplied) + 1)..Len(supplied') :
                 LET es == CallsOf(notified', c)
                 IN  [i \in 1..Len(es) |-> es[i].listener]
                        = FirstOccurrences(registered)]_vars

\* C28 amended: the listener set holds no duplicates; a listener passed to
\* onStateUpdate several times stays at the position of its first
\* registration and is invoked at most once per setState call, at that
\* position: exactly once unless a listener before it raised, and then not
\* at all.
C28_NoDuplicateListeners ==
    [][/\ stateListeners' = FirstOccurrences(registered')
       /\ \A i, j \in DOMAIN stateListeners' :
             stateListeners'[i] = stateListeners'[j] => i = j
       /\ last'.op = "setState" =>
             \A c \in (Len(supplied) + 1)..Len(supplied') :
                 LET es == CallsOf(notified', c)
                     all == FirstOccurrences(registered)
                 IN  /\ Len(es) <= Len(all)
                     /\ [i \in 1..Len(es) |-> es[i].listener]
                           = SubSeq(all, 1, Len(es))
                     /\ \/ Len(es) = Len(all)
                        \/ Len(es) > 0 /\ es[Len(es)].raised]_vars

\* l1 was passed to onStateUpdate before and after l2; the setState call
\* that followed invoked l1 and then l2, once each.
C28_Witness ==
    /\ registered = <<"l1", "l2", "l1">>
    /\ last.op = "setState"
    /\ [i \in DOMAIN notified |-> notified[i].listener] = <<"l1", "l2">>
    /\ \A i \in DOMAIN notified : notified[i].call = Len(supplied)

\* The number of leading tokens of toks that make a path of the set.
RECURSIVE LongestIn(_, _, _)
LongestIn(paths, toks, k) ==
    IF k = 0 \/ Upto(toks, k) \in paths THEN k
    ELSE LongestIn(paths, toks, k - 1)

\* C29: what the walks, the dispatch and the global help listing give is
\* fixed by the set of registered paths, whatever the order in which
\* siblings were registered: weakDive consumes the longest leading path of
\* the set and returns the Command registered for it, strictDive returns the
\* Command registered for the whole path or nothing, a message invokes the
\* action of the Command that weakDive returns for its tokens, and the
\* global help lists the top-level names of the set and `help` in
\* ascending order.
C29_OrderOfSiblingsIrrelevant ==
    LET paths == DOMAIN created
        top == {q[1] : q \in {r \in paths : Len(r) = 1}} \cup {tHelp}
        listing == GlobalHelp.embed.commands
    IN  /\ \A toks \in DivePaths :
              LET n == LongestIn(paths, toks, Len(toks))
              IN  /\ weakDive(toks).through = Upto(toks, n)
                  /\ weakDive(toks).command
                        = IF n = 0 THEN Undefined ELSE created[Upto(toks, n)]
                  /\ strictDive(toks)
                        = IF toks \in paths THEN created[toks] ELSE Undefined
        /\ \A q \in NamePaths(2) \ {<<>>} :
              LET n == LongestIn(paths, q, Len(q))
                  d == receive([bot |-> FALSE, content |-> prefix \o Join(q)],
                               [state |-> state, supplied |-> supplied,
                                log |-> <<>>, threw |-> FALSE]).dispatch
              IN  IF n = 0
                  THEN d.invoked = <<>> /\ d.replies = <<Text(invalidCommandError)>>
                  ELSE /\ Len(d.invoked) = 1
                       /\ d.invoked[1].node = created[Upto(q, n)]
                       /\ d.invoked[1].request.commands = Upto(q, n)
        /\ {listing[i] : i \in DOMAIN listing} = top
        /\ Len(listing) = Cardinality(top)
        /\ \A i \in 1..(Len(listing) - 1) :
              StringLess(listing[i], listing[i + 1])

\* b was registered before its sibling a, at the top and below a: the walks
\* resolve both and the listing has a before b.
C29_Witness ==
    /\ <<(<<"a">>)>> \in DOMAIN created
    /\ <<(<<"b">>)>> \in DOMAIN created
    /\ created[<<(<<"b">>)>>] < created[<<(<<"a">>)>>]
    /\ GlobalHelp.embed.commands = <<(<<"a">>), (<<"b">>), tHelp>>
    /\ weakDive(<<(<<"a">>), (<<"z">>)>>).command = created[<<(<<"a">>)>>]

\* C30: once close() has returned, no message event of a client the bot was
\* listening on when it was called starts a dispatch: no action is invoked
\* and no reply is sent for it.
C30_NoDispatchAfterClose ==
    [][Len(dispatches') > Len(dispatches)
          => channel'.event \notin channel.closedOn]_vars

\* The bot listened on c1 and then on c2 and was closed; a message event of
\* c1 after that has invoked the action of `a`.
C30_Witness ==
    /\ channel.closedOn = {"c1", "c2"}
    /\ channel.destroyed = {"c2"}
    /\ channel.event = "c1"
    /\ last.op = "message"
    /\ dispatches # <<>>
    /\ dispatches[Len(dispatches)].invoked # <<>>

\* C31: for every tree and every token list both walks return or report
\* that no command was found; the through of weakDive is a leading part of
\* the tokens; its command is absent exactly when through is empty;
\* strictDive(through) is that command whenever through is not empty; and
\* strictDive succeeds on the tokens exactly when they are not empty and
\* weakDive consumed them all.
C31_WalksAgree ==
    \A p \in DivePaths \cup {<<>>} :
        LET weak == weakDive(p)
            strict == strictDive(p)
        IN  /\ weak.command # TypeError
            /\ strict # TypeError
            /\ Len(weak.through) <= Len(p)
            /\ weak.through = Upto(p, Len(weak.through))
            /\ weak.command = Undefined <=> weak.through = <<>>
            /\ weak.through # <<>> => strictDive(weak.through) = weak.command
            /\ strict # Undefined <=> (p # <<>> /\ weak.through = p)

\* `a` was registered as the README's plugin, with the Command b in its sub:
\* the walk to b returns it, the walks below b throw a TypeError.
C31_Witness ==
    /\ <<(<<"a">>), (<<"b">>)>> \in DOMAIN plugged
    /\ weakDive(<<(<<"a">>), (<<"b">>)>>).command
          = plugged[<<(<<"a">>), (<<"b">>)>>]
    /\ "sub" \notin DOMAIN heap[plugged[<<(<<"a">>), (<<"b">>)>>]]
    /\ weakDive(<<(<<"a">>), (<<"b">>), (<<"z">>)>>).command = TypeError
    /\ strictDive(<<(<<"a">>), (<<"b">>), (<<"z">>)>>) = TypeError

\* The dispatch was answered with the global help.
HasGlobalHelp(d) ==
    \E i \in DOMAIN d.replies : DOMAIN d.replies[i] = {"embed"}

\* C32: a message is answered with the global help exactly when it is not
\* from a bot, its tokens are the single token help and no top-level command
\* is named help; when one is, the message calls that command's action with
\* no arguments and gets no help reply; and no later step of a dispatch
\* adds a global help reply.
C32_GlobalHelpExactlyWhenUnregistered ==
    [][/\ Len(dispatches') = Len(dispatches) + 1 =>
             LET d == dispatches'[Len(dispatches')]
                 asks == ~d.bot /\ parse(d.content) = <<tHelp>>
             IN  /\ HasGlobalHelp(d)
                    <=> (asks /\ Get(commands, tHelp) = Undefined)
                 /\ HasGlobalHelp(d) => d.replies = <<GlobalHelp>>
                 /\ (asks /\ Get(commands, tHelp) # Undefined) =>
                       /\ Len(d.invoked) = 1
                       /\ d.invoked[1].node = commands[tHelp]
                       /\ d.invoked[1].request.commands = <<tHelp>>
                       /\ d.invoked[1].request.args = <<>>
                       /\ d.replies = <<>>
                       /\ d.helpCalls = <<>>
       /\ \A i \in DOMAIN dispatches :
             HasGlobalHelp(dispatches'[i]) = HasGlobalHelp(dispatches[i])]_vars

\* ';;help' was answered with the global help before `help` was registered,
\* and called the action of `help` after.
C32_Witness ==
    /\ Len(dispatches) = 2
    /\ dispatches[1].content = prefix \o tHelp
    /\ dispatches[2].content = prefix \o tHelp
    /\ HasGlobalHelp(dispatches[1])
    /\ dispatches[1].invoked = <<>>
    /\ dispatches[2].replies = <<>>
    /\ Len(dispatches[2].invoked) = 1
    /\ dispatches[2].invoked[1].action = "h2"

\* C33: at every call of a listener with (previous, next), during any
\* setState call, also one made by a listener, the state of the bot is next.
C33_ListenerSeesCurrentState ==
    \A i \in DOMAIN notified : notified[i].current = notified[i].next

\* lSet, the first listener, called setState while it was notified of
\* { value1: 'a' }; l1 was then called with that state as next while the
\* state of the bot was { value1: 'a', value2: 'B' }.
C33_Witness ==
    /\ stateListeners = <<"lSet", "l1">>
    /\ Len(notified) = 4
    /\ notified[4].listener = "l1"
    /\ notified[4].next.value = [k \in {"value1"} |-> "a"]
    /\ notified[4].current.value
          = [k \in {"value1", "value2"} |-> IF k = "value1" THEN "a" ELSE "B"]
    /\ state = notified[4].current

\* The bot of the shared state container whose setup code also sets the
\* state itself, once the commands are registered and before messages
\* arrive.
RaisePartials == { [k \in {"value1"} |-> "a"], [k \in {"value2"} |-> "b"] }

NextRaise ==
    \/ SetupShared
    \/ \E l \in SharedListeners : dispatches = <<>> /\ OnStateUpdate(l)
    \/ \E partial \in RaisePartials :
          /\ Len(heap) = Len(SharedScript)
          /\ dispatches = <<>>
          /\ SetState(partial)
    \/ \E message \in SharedMessages :
          Len(heap) = Len(SharedScript) /\ Receive(message)
    \/ \E i \in DOMAIN dispatches : ReplyDone(i)
    \/ \E i \in DOMAIN dispatches : ActionResolves(i)
    \/ \E i \in DOMAIN dispatches : ActionRejects(i)

SpecRaise == Init /\ [][NextRaise]_vars

\* C34: in a step that calls setState, the state afterwards is the merge of
\* every partial state supplied, whether or not a listener raised; a
\* listener raised exactly when the error reached the caller: a setState
\* called by the user threw, and a dispatch whose handler called it answered
\* with errorMessage, once, and with nothing else; and a setState call in
\* which a listener raised invoked the listeners registered before it and
\* the raising one, in order, and none after it.
C34_ListenerErrorPropagates ==
    [][supplied' # supplied =>
          \A log \in {notified'} :
              /\ state' = MergeAll(state, supplied', Len(supplied) + 1)
              /\ (\E i \in DOMAIN log : log[i].raised)
                    <=> IF dispatches' = dispatches
                        THEN last'.op = "setState" /\ last'.threw
                        ELSE \E i \in DOMAIN dispatches' :
                                /\ dispatches'[i].errors = 1
                                /\ dispatches'[i].pc = "reply"
                                /\ dispatches'[i].replies
                                      = <<Text(errorMessage)>>
                                /\ (i \in DOMAIN dispatches
                                       => dispatches[i].errors = 0)
              /\ \A i \in DOMAIN log :
                    log[i].raised =>
                        /\ \A j \in DOMAIN log :
                              j > i => log[j].call # log[i].call
                        /\ \A mine \in {CallsOf(log, log[i].call)} :
                              /\ Len(mine) <= Len(stateListeners)
                              /\ \A k \in DOMAIN mine :
                                    /\ mine[k].listener = stateListeners[k]
                                    /\ mine[k].raised <=> k = Len(mine)]_vars

\* The user's setState({ value1: 'a' }) threw on lThrow, the first of two
\* listeners: the state holds value1 and l1 was not called; afterwards the
\* handler of ;;c made the same call and its dispatch answered with
\* errorMessage.
C34_Witness ==
    /\ stateListeners = <<"lThrow", "l1">>
    /\ last.op = "receive"
    /\ Len(supplied) = 2
    /\ Len(notified) = 1
    /\ notified[1].listener = "lThrow"
    /\ notified[1].raised
    /\ state = [undefined |-> FALSE, value |-> [k \in {"value1"} |-> "a"]]
    /\ Len(dispatches) = 1
    /\ dispatches[1].invoked # <<>>
    /\ dispatches[1].invoked[1].action = "hSet"
    /\ dispatches[1].replies = <<Text(errorMessage)>>

\* C35: when the message is the prefix followed by a non-empty list of
\* non-empty, whitespace-free tokens joined by single spaces, parse returns
\* that list; and every token parse returns, for any message, is non-empty
\* and free of whitespace.  The prefix holds no whitespace.
C35_ParseRoundTrip ==
    (/\ probe.op = "parse"
     /\ \A i \in DOMAIN prefix : prefix[i] \notin Whitespace) =>
        /\ \A toks \in {Tokens(Slice(probe.message, Len(prefix)))} :
              (/\ StartsWith(probe.message, prefix)
               /\ toks # <<>>
               /\ probe.message = prefix \o Join(toks))
                  => probe.result = toks
        /\ \A i \in DOMAIN probe.result :
              /\ probe.result[i] # <<>>
              /\ \A j \in DOMAIN probe.result[i] :
                    probe.result[i][j] \notin Whitespace

\* With the prefix '!', parse('!a ! a') returned the tokens a, '!' and a.
C35_Witness ==
    /\ probe.op = "parse"
    /\ prefix = <<"!">>
    /\ probe.message = prefix \o Join(<< <<"a">>, <<"!">>, <<"a">> >>)
    /\ probe.result = << <<"a">>, <<"!">>, <<"a">> >>

====
